---- MODULE Spec2Model ----
(***************************************************************************)
(* Earnings API: the store (referral_links, referrals, withdrawals, ...)   *)
(* and the HTTP handlers that read and write it.                           *)
(*                                                                         *)
(* Two backends are modelled over one store:                               *)
(*   - the strict variant (src/server.js, lines 1-333): dashboard and     *)
(*     request-withdrawal with the pending check and the balance check;   *)
(*   - the token-verified variant (src/unnamed/part_000): JWT gates, the  *)
(*     owner-checked user endpoints and the admin endpoints.               *)
(*                                                                         *)
(* Amounts are whole currency units (the reward per approved referral is   *)
(* 100); SQL NULL in a text column is the string "NULL".  A handler is one *)
(* atomic action: requests are handled one at a time.  Store failures      *)
(* (a query that throws for a reason other than a bad parameter) are not   *)
(* modelled.  The repository does not fix the version of PostgreSQL, so    *)
(* the store is either one whose integer input reads decimal digits only   *)
(* or one (version 16 and later) that also takes '_' between digits.       *)
(***************************************************************************)
EXTENDS Integers, Sequences, FiniteSets, TLC

VARIABLES
    referrals,         \* table referrals: id -> [referral_link_id, status]
    withdrawals,       \* table withdrawals: sequence of rows, row i has id i
    earnings,          \* table earnings (written by the referral system)
    earnings_history,  \* table earnings_history (written by the referral system)
    admin_adjustments, \* table admin_adjustments: sequence of rows
    winners_of_week,   \* table winners_of_week: sequence of rows
    earnings_adjustments, \* table earnings_adjustments: sequence of rows
    earnings_admins,   \* table earnings_admins: its rows, and whether its
                       \* schema declares username UNIQUE
    today,             \* the day new Date() falls on, counted from a Sunday
    int_underscores,   \* whether the store's integer input takes '_' between
                       \* digits (PostgreSQL from version 16 does)
    calls,             \* the handlers in flight where requests overlap: each
                       \* with its place in the handler and its locals
    req,               \* the last request handled: [op, ...inputs]
    res,               \* the response sent to it
    pre                \* the written tables as they were before that request

\* what a handler served alone leaves as it is: the tables the referral
\* system owns, the tables of adjustments and of admin accounts, the clock,
\* the store's version and the calls in flight
given == <<referrals, earnings, earnings_history, earnings_adjustments, earnings_admins,
           today, int_underscores, calls>>

\* the tables the endpoints write
store == <<withdrawals, admin_adjustments, winners_of_week>>

vars == <<referrals, withdrawals, earnings, earnings_history, admin_adjustments,
          winners_of_week, earnings_adjustments, earnings_admins, today,
          int_underscores, calls, req, res, pre>>

\* the written tables, as pre keeps them
Snapshot ==
    [withdrawals |-> withdrawals, admin_adjustments |-> admin_adjustments,
     winners_of_week |-> winners_of_week]

-----------------------------------------------------------------------------
(* Bounds *)

\* the withdrawals table holds at most this many rows
MaxRows == 3

\* the same, where the token-verified variant is served
MaxTokenRows == 2

\* the admin_adjustments table holds at most this many rows
MaxAdjustments == 1

\* the last day the clock reaches
LastDay == 15

-----------------------------------------------------------------------------
(* JavaScript values of a JSON body field, and the conversions used on them *)

JsUndefined == [t |-> "undefined", n |-> 0, s |-> <<>>]
JsNaN == [t |-> "NaN", n |-> 0, s |-> <<>>]
JsNum(k) == [t |-> "number", n |-> k, s |-> <<>>]
JsStr(cs) == [t |-> "string", n |-> 0, s |-> cs]

DigitVal ==
    [c \in {"0", "1", "2", "3", "4", "5", "6", "7", "8", "9"} |->
        CASE c = "0" -> 0 [] c = "1" -> 1 [] c = "2" -> 2 [] c = "3" -> 3
          [] c = "4" -> 4 [] c = "5" -> 5 [] c = "6" -> 6 [] c = "7" -> 7
          [] c = "8" -> 8 [] c = "9" -> 9]

IsDigit(c) == c \in DOMAIN DigitVal

\* the longest prefix of cs made of digits
RECURSIVE DigitsPrefix(_)
DigitsPrefix(cs) ==
    IF cs = <<>> \/ ~IsDigit(Head(cs)) THEN <<>>
    ELSE <<Head(cs)>> \o DigitsPrefix(Tail(cs))

\* the value of a sequence of digits, acc being the value read so far
RECURSIVE DigitsValue(_, _)
DigitsValue(cs, acc) ==
    IF cs = <<>> THEN acc
    ELSE DigitsValue(Tail(cs), 10 * acc + DigitVal[Head(cs)])

RECURSIVE TrimLeft(_)
TrimLeft(cs) ==
    IF cs # <<>> /\ Head(cs) = " " THEN TrimLeft(Tail(cs)) ELSE cs

\* the number a string starts with (leading blanks and a sign allowed, what
\* follows the digits ignored), NaN when it starts with none
ParseNumberPrefix(cs) ==
    LET t == TrimLeft(cs)
        neg == t # <<>> /\ Head(t) = "-"
        signed == t # <<>> /\ Head(t) \in {"-", "+"}
        body == IF signed THEN Tail(t) ELSE t
        ds == DigitsPrefix(body)
    IN  IF ds = <<>> THEN JsNaN
        ELSE JsNum(IF neg THEN 0 - DigitsValue(ds, 0) ELSE DigitsValue(ds, 0))

\* parseFloat(v): v is turned into a string and its numeric prefix is read
parseFloat(v) ==
    CASE v.t = "number" -> v
      [] v.t = "string" -> ParseNumberPrefix(v.s)
      [] OTHER -> JsNaN

\* parseInt(v) of a string (the values used here hold no fraction)
parseInt(v) ==
    CASE v.t = "number" -> v
      [] v.t = "string" -> ParseNumberPrefix(v.s)
      [] OTHER -> JsNaN

isNaN(v) == v.t = "NaN"

\* n.toFixed(2) of a whole number
toFixed2(n) == ToString(n) \o ".00"

RECURSIVE Grouped(_)
\* cs is digits with single underscores between them
Grouped(cs) ==
    LET ds == DigitsPrefix(cs)
        rest == SubSeq(cs, Len(ds) + 1, Len(cs))
    IN  /\ ds # <<>>
        /\ rest = <<>> \/ (Head(rest) = "_" /\ Grouped(Tail(rest)))

\* cs without its underscores
Ungrouped(cs) == SelectSeq(cs, LAMBDA c : c # "_")

\* the cast of a text parameter to an integer column: [ok, v]; the query
\* throws when the text is no integer
SqlInt(cs) ==
    LET t == TrimLeft(cs)
        neg == t # <<>> /\ Head(t) = "-"
        signless == IF neg THEN Tail(t) ELSE t
        body == IF int_underscores /\ Grouped(signless) THEN Ungrouped(signless)
                ELSE signless
        ds == DigitsPrefix(body)
    IN  IF ds # <<>> /\ ds = body
        THEN [ok |-> TRUE, v |-> IF neg THEN 0 - DigitsValue(ds, 0) ELSE DigitsValue(ds, 0)]
        ELSE [ok |-> FALSE, v |-> 0]

-----------------------------------------------------------------------------
(* The store *)

Users == {1, 2, 3, 12}

Operators == {"Airtel", "Vi", "Jio"}

\* table referral_links (written by the referral system, read-only here):
\* user 1 has an Airtel and a Vi link, user 2 an Airtel link and a Jio link
\* without referrals, user 3 has no link
ReferralLinks ==
    { [id |-> 1, user_id |-> 1, operator |-> "Airtel"],
      [id |-> 2, user_id |-> 1, operator |-> "Vi"],
      [id |-> 3, user_id |-> 2, operator |-> "Airtel"],
      [id |-> 4, user_id |-> 2, operator |-> "Jio"] }

ReferralIds == {1, 2, 3, 4, 5}

\* the referral link each referral came through
ReferralLinkOf == [r \in ReferralIds |-> CASE r \in {1, 2, 3} -> 1 [] r = 4 -> 2 [] OTHER -> 3]

ReferralStatuses == {"pending", "approved", "rejected"}

WithdrawalStatuses == {"pending", "approved", "rejected", "paid"}

\* the referral table with the given statuses of referrals 3, 4 and 5;
\* referrals 1 and 2 are approved
ReferralTable(s3, s4, s5) ==
    [r \in ReferralIds |->
        [referral_link_id |-> ReferralLinkOf[r],
         status |-> CASE r = 3 -> s3 [] r = 4 -> s4 [] r = 5 -> s5 [] OTHER -> "approved"]]

\* the referral tables the store can start with: user 1 has three approved
\* Airtel referrals, or two and an approved Vi one; user 2 has one approved
\* Airtel referral or none
InitialReferrals ==
    { ReferralTable("approved", "rejected", "approved"),
      ReferralTable("pending", "approved", "pending") }

NoRequest == [op |-> "none"]

\* table earnings_admins before the first login
NoAdmins == [rows |-> <<>>, unique |-> FALSE]

\* the fields of a response body the handlers fill: amounts sent as text
\* (strict variant), the rows of the lists sent, a count and a total sent
\* as numbers and the text of a CSV body
NoResponse == [status |-> 0, error |-> "", totalEarnings |-> "", currentBalance |-> "",
               totalWithdrawn |-> "", remainingBalance |-> "", available |-> "",
               rows |-> {}, count |-> 0, total |-> 0, csv |-> <<>>]

\* a JSON error response
Fail(code, msg) == [NoResponse EXCEPT !.status = code, !.error = msg]

\* sum of f[x] over the finite set S
RECURSIVE SumOver(_, _)
SumOver(S, f) ==
    IF S = {} THEN 0
    ELSE LET x == CHOOSE y \in S : TRUE IN f[x] + SumOver(S \ {x}, f)

\* the ids of the rows of table w
RowIds(w) == DOMAIN w

\* (variant: a read that also writes a row of a log)
ServeLogged(request, response) ==
    /\ Len(admin_adjustments) < MaxAdjustments
    /\ req' = request
    /\ res' = response
    /\ pre' = Snapshot
    /\ admin_adjustments' = Append(admin_adjustments, request)
    /\ UNCHANGED <<given, withdrawals, winners_of_week>>

\* a request that writes nothing: the response is all it leaves
Serve(request, response) ==
    /\ req' = request
    /\ res' = response
    /\ pre' = Snapshot
    /\ UNCHANGED <<given, store>>

-----------------------------------------------------------------------------
(* Strict variant: GET /api/earnings/dashboard/:userId *)

\* the referrals joined to a referral link
ReferralsOfLink(l) == {r \in ReferralIds : referrals[r].referral_link_id = l.id}

\* (variant: every referral is rewarded, whatever its status)
RewardOfAnyStatus(r) == 100

\* CASE WHEN r.status = 'approved' THEN 100 ELSE 0 END
RewardOf(r) == IF referrals[r].status = "approved" THEN 100 ELSE 0

\* query 1: per operator of the user's links (LEFT JOIN referrals, GROUP BY
\* rl.operator) the referral count, the approved count and the amount
EarningsByOperator(uid) ==
    LET links == {l \in ReferralLinks : l.user_id = uid}
        ops == {l.operator : l \in links}
        joined(op) == UNION {ReferralsOfLink(l) : l \in {k \in links : k.operator = op}}
    IN  { [operator |-> op,
           total_referrals |-> Cardinality(joined(op)),
           approved_referrals_count |->
               Cardinality({r \in joined(op) : referrals[r].status = "approved"}),
           total_amount |-> SumOver(joined(op), [r \in ReferralIds |-> RewardOf(r)])] :
          op \in ops }

\* the loop over the rows of query 1
TotalLifetimeEarnings(uid) ==
    LET rows == EarningsByOperator(uid)
    IN  SumOver(rows, [row \in rows |-> row.total_amount])

\* (variant: pending withdrawals are not deducted)
DashboardDeductedNoPending == {"approved", "paid"}

\* (variant: rejected withdrawals are deducted as well)
DashboardDeductedWithRejected == {"pending", "approved", "paid", "rejected"}

\* the statuses query 2 of the dashboard deducts
DashboardDeducted == {"pending", "approved", "paid"}

\* query 2: COALESCE(SUM(requested_amount), 0) of the user's deducted rows
DashboardTotalWithdrawn(uid, w) ==
    SumOver({i \in RowIds(w) : w[i].user_id = uid /\ w[i].status \in DashboardDeducted},
            [i \in RowIds(w) |-> w[i].requested_amount])

DashboardBalance(uid, w) == TotalLifetimeEarnings(uid) - DashboardTotalWithdrawn(uid, w)

DashboardResponse(userId) ==
    LET id == SqlInt(userId) IN
    IF ~id.ok THEN Fail(500, "invalid input syntax for type integer")
    ELSE [NoResponse EXCEPT
            !.status = 200,
            !.totalEarnings = toFixed2(TotalLifetimeEarnings(id.v)),
            !.currentBalance = toFixed2(DashboardBalance(id.v, withdrawals)),
            !.totalWithdrawn = toFixed2(DashboardTotalWithdrawn(id.v, withdrawals)),
            !.rows = EarningsByOperator(id.v)]

GetDashboard(userId) ==
    Serve([op |-> "dashboard", userId |-> userId], DashboardResponse(userId))

-----------------------------------------------------------------------------
(* Strict variant: GET /api/earnings/history/:userId and
   GET /api/earnings/withdrawals/:userId *)

\* referrals JOIN referral_links WHERE rl.user_id = $1
HistoryResponse(userId) ==
    LET id == SqlInt(userId)
        links == {l \in ReferralLinks : l.user_id = id.v}
    IN  IF ~id.ok THEN Fail(500, "invalid input syntax for type integer")
        ELSE [NoResponse EXCEPT
                !.status = 200,
                !.rows = UNION { { [id |-> r, operator |-> l.operator,
                                    amount_earned |-> RewardOf(r),
                                    status |-> referrals[r].status] :
                                   r \in ReferralsOfLink(l) } : l \in links }]

GetHistory(userId) == Serve([op |-> "history", userId |-> userId], HistoryResponse(userId))

\* SELECT id, operator, requested_amount, status, requested_at FROM
\* withdrawals WHERE user_id = $1
WithdrawalsResponse(userId) ==
    LET id == SqlInt(userId)
        mine == {i \in RowIds(withdrawals) : withdrawals[i].user_id = id.v}
    IN  IF ~id.ok THEN Fail(500, "invalid input syntax for type integer")
        ELSE [NoResponse EXCEPT
                !.status = 200,
                !.rows = { [id |-> withdrawals[i].id,
                            operator |-> withdrawals[i].operator,
                            requested_amount |-> withdrawals[i].requested_amount,
                            status |-> withdrawals[i].status,
                            requested_at |-> withdrawals[i].requested_at] : i \in mine }]

GetWithdrawals(userId) ==
    Serve([op |-> "withdrawals", userId |-> userId], WithdrawalsResponse(userId))

-----------------------------------------------------------------------------
(* Strict variant: POST /api/earnings/request-withdrawal *)

\* (variant: the pending check is left out)
PendingCheckNone(uid, w) == {}

\* (variant: the pending check looks for the wrong status)
PendingCheckWrongStatus(uid, w) ==
    {i \in DOMAIN w : w[i].user_id = uid /\ w[i].status = "approved"}

\* Check 1: the user's rows in status pending
PendingCheck(uid, w) == {i \in RowIds(w) : w[i].user_id = uid /\ w[i].status = "pending"}

\* Check 2, first query: referral_links JOIN referrals of the user, 100 per
\* approved referral, COALESCE(SUM, 0)
TotalEarned(uid) ==
    LET joined == UNION {ReferralsOfLink(l) : l \in {k \in ReferralLinks : k.user_id = uid}}
    IN  SumOver(joined, [r \in ReferralIds |-> RewardOf(r)])

\* the statuses the second query of Check 2 deducts
RequestDeducted == {"pending", "approved", "paid"}

\* Check 2, second query
RequestTotalWithdrawn(uid, w) ==
    SumOver({i \in RowIds(w) : w[i].user_id = uid /\ w[i].status \in RequestDeducted},
            [i \in RowIds(w) |-> w[i].requested_amount])

\* (variant: the withdrawals are not subtracted)
AvailableBalanceLifetime(uid, w) == TotalEarned(uid)

\* const availableBalance = totalEarned - totalWithdrawn
AvailableBalance(uid, w) == TotalEarned(uid) - RequestTotalWithdrawn(uid, w)

\* (variant: the row is created approved)
NewWithdrawalApproved(id, uid, username, operator, amount) ==
    [id |-> id, user_id |-> uid, username |-> username, operator |-> operator,
     requested_amount |-> amount, status |-> "approved", requested_at |-> id,
     admin_notes |-> "NULL",
     rejection_reason |-> "NULL", processed_at |-> "NULL", processed_by_admin |-> "NULL"]

\* the row INSERT INTO withdrawals (user_id, operator, requested_amount,
\* status, requested_at) creates; the other columns take their defaults
NewWithdrawal(id, uid, username, operator, amount) ==
    [id |-> id, user_id |-> uid, username |-> username, operator |-> operator,
     requested_amount |-> amount, status |-> "pending", requested_at |-> id,
     admin_notes |-> "NULL",
     rejection_reason |-> "NULL", processed_at |-> "NULL", processed_by_admin |-> "NULL"]

\* the handler on table w: the response and the table it leaves.  operator
\* is a string ("" when the field is missing or empty), uid a number (0 when
\* missing), requestedAmount any JSON value
RequestOutcome(operator, requestedAmount, uid, w) ==
    LET amount == parseFloat(requestedAmount)
        availableBalance == AvailableBalance(uid, w)
        row == NewWithdrawal(Len(w) + 1, uid, "NULL", operator, amount.n)
    IN  IF operator = "" \/ uid = 0
        THEN [res |-> Fail(400, "Missing required fields"), w |-> w]
        ELSE IF isNaN(amount) \/ amount.n <= 0
        THEN [res |-> Fail(400, "Invalid withdrawal amount"), w |-> w]
        ELSE IF PendingCheck(uid, w) # {}
        THEN [res |-> Fail(400, "You already have a pending withdrawal request"), w |-> w]
        ELSE IF amount.n > availableBalance
        THEN [res |-> [Fail(400, "Insufficient balance") EXCEPT
                          !.available = toFixed2(availableBalance)],
              w |-> w]
        ELSE [res |-> [NoResponse EXCEPT
                          !.status = 200,
                          !.rows = {row},
                          !.remainingBalance = toFixed2(availableBalance - amount.n)],
              w |-> Append(w, row)]

RequestWithdrawal(operator, requestedAmount, uid) ==
    LET out == RequestOutcome(operator, requestedAmount, uid, withdrawals) IN
    /\ Len(out.w) <= MaxRows
    /\ req' = [op |-> "request-withdrawal", operator |-> operator,
               requestedAmount |-> requestedAmount, uid |-> uid]
    /\ res' = out.res
    /\ pre' = Snapshot
    /\ withdrawals' = out.w
    /\ UNCHANGED <<given, admin_adjustments, winners_of_week>>

-----------------------------------------------------------------------------
(* Token-verified variant: JWT and the admin gate *)

JWT_SECRET == "earnings_pratheek_secret_key_2025"

\* a token: whether it parses as a JWT, the key it was signed with, whether
\* its exp has passed, and its payload
MakeToken(key, expired, payload) ==
    [key |-> key, expired |-> expired, payload |-> payload, wellFormed |-> TRUE]

\* jwt.sign({ adminUsername, isAdmin: true }, JWT_SECRET, { expiresIn })
AdminPayload(username) ==
    [userId |-> JsUndefined, username |-> "", isAdmin |-> TRUE, adminUsername |-> username]

\* the payload of a user token of the referral system: { userId, username }
UserPayload(uid, username) ==
    [userId |-> JsNum(uid), username |-> username, isAdmin |-> FALSE, adminUsername |-> ""]

Garbage == [MakeToken("", FALSE, AdminPayload("pratheek")) EXCEPT !.wellFormed = FALSE]

\* jwt.verify(token, secret): throws unless the token parses, carries a
\* signature made with secret and has not expired
jwtVerify(token, secret) ==
    [ok |-> token.wellFormed /\ token.key = secret /\ ~token.expired,
     decoded |-> token.payload]

\* an Authorization header: the number of blank-separated parts of its value
\* (0: no header) and the second part
Header(parts, token) == [token |-> token, parts |-> parts]

\* req.headers.authorization?.split(' ')[1]
BearerToken(hdr) == [present |-> hdr.parts >= 2, token |-> hdr.token]

\* (variant: any verified token is let through)
verifyAdminTokenAnyPayload(hdr) ==
    LET t == BearerToken(hdr)
        v == jwtVerify(t.token, JWT_SECRET)
    IN  IF ~t.present THEN [pass |-> FALSE, res |-> Fail(401, "No admin token provided")]
        ELSE IF ~v.ok THEN [pass |-> FALSE, res |-> Fail(403, "Invalid admin token")]
        ELSE [pass |-> TRUE, res |-> NoResponse, admin |-> v.decoded]

\* verifyAdminToken: next() is called exactly when pass
verifyAdminToken(hdr) ==
    LET t == BearerToken(hdr)
        v == jwtVerify(t.token, JWT_SECRET)
    IN  IF ~t.present THEN [pass |-> FALSE, res |-> Fail(401, "No admin token provided")]
        ELSE IF ~v.ok THEN [pass |-> FALSE, res |-> Fail(403, "Invalid admin token")]
        ELSE IF ~v.decoded.isAdmin THEN [pass |-> FALSE, res |-> Fail(403, "Not an admin token")]
        ELSE [pass |-> TRUE, res |-> NoResponse, admin |-> v.decoded]

-----------------------------------------------------------------------------
(* PUT /api/admin/earnings/approve-withdrawal/:withdrawalId *)

\* the value NOW() stamps
Now == "NOW()"

\* (variant: every status of the schema is let through)
ResolutionStatusesAll == {"pending", "approved", "rejected", "paid"}

\* (variant: paid is let through as well)
ResolutionStatusesWithPaid == {"approved", "rejected", "paid"}

\* the statuses the handler lets through
ResolutionStatuses == {"approved", "rejected"}

\* (variant: the UPDATE has no WHERE)
RowsToUpdateAll(id, w) == RowIds(w)

\* the rows UPDATE withdrawals ... WHERE id = $5 matches
RowsToUpdate(id, w) == {i \in RowIds(w) : w[i].id = id}

\* UPDATE withdrawals SET status, admin_notes, rejection_reason,
\* processed_at = NOW(), processed_by_admin WHERE id = $5
UpdateWithdrawal(w, id, body, adminUsername) ==
    [i \in RowIds(w) |->
        IF i \in RowsToUpdate(id, w)
        THEN [w[i] EXCEPT !.status = body.status,
                          !.admin_notes = body.adminNotes,
                          !.rejection_reason = body.rejectionReason,
                          !.processed_at = Now,
                          !.processed_by_admin = adminUsername]
        ELSE w[i]]

\* the handler behind the gate
ApproveOutcome(withdrawalId, body, admin, w) ==
    LET id == SqlInt(withdrawalId)
        w2 == UpdateWithdrawal(w, id.v, body, admin.adminUsername)
    IN  IF body.status \notin ResolutionStatuses
        THEN [res |-> Fail(400, "Invalid status"), w |-> w]
        ELSE IF ~id.ok
        THEN [res |-> Fail(500, "invalid input syntax for type integer"), w |-> w]
        ELSE [res |-> [NoResponse EXCEPT
                          !.status = 200,
                          !.rows = {w2[i] : i \in RowsToUpdate(id.v, w)}],
              w |-> w2]

ApproveWithdrawal(hdr, withdrawalId, body) ==
    LET gate == verifyAdminToken(hdr)
        out == IF gate.pass
               THEN ApproveOutcome(withdrawalId, body, gate.admin, withdrawals)
               ELSE [res |-> gate.res, w |-> withdrawals]
    IN  /\ req' = [op |-> "approve-withdrawal", hdr |-> hdr,
                   withdrawalId |-> withdrawalId, body |-> body]
        /\ res' = out.res
        /\ pre' = Snapshot
        /\ withdrawals' = out.w
        /\ UNCHANGED <<given, admin_adjustments, winners_of_week>>

-----------------------------------------------------------------------------
(* Token-verified variant: the tables the referral system fills *)

EarningsRow(u, name, op, amount, n) ==
    [user_id |-> u, username |-> name, operator |-> op, total_amount |-> amount,
     approved_referrals_count |-> n, updated_at |-> "t0"]

HistoryRow(id, u, op, name, amount, st) ==
    [id |-> id, user_id |-> u, operator |-> op, referral_code |-> "code",
     referred_person_name |-> name, amount_earned |-> amount, status |-> st,
     created_at |-> id, admin_notes |-> "NULL"]

\* two contents of tables earnings and earnings_history
LedgerA ==
    [earnings |-> { EarningsRow(1, "u1", "Airtel", 300, 3),
                    EarningsRow(2, "u2", "Airtel", 100, 1),
                    EarningsRow(2, "u2", "Jio", 0, 0),
                    EarningsRow(12, "u12", "Airtel", 200, 2) },
     earnings_history |-> { HistoryRow(1, 1, "Airtel", <<"a">>, 100, "approved"),
                            HistoryRow(2, 2, "Airtel", <<"b", "\"", "c">>, 100, "approved"),
                            HistoryRow(3, 12, "Airtel", <<"g">>, 100, "approved") }]

LedgerB ==
    [earnings |-> { EarningsRow(1, "u1", "Airtel", 300, 3),
                    EarningsRow(2, "u2", "Vi", 200, 2),
                    EarningsRow(12, "u12", "Jio", 100, 1) },
     earnings_history |-> { HistoryRow(1, 1, "Airtel", <<"a">>, 100, "approved"),
                            HistoryRow(2, 2, "Vi", <<"c", ",", "d">>, 100, "approved"),
                            HistoryRow(3, 2, "Vi", <<"e", "\n", "f">>, 100, "approved"),
                            HistoryRow(4, 12, "Jio", <<"f">>, 100, "approved") }]

Ledgers == {LedgerA, LedgerB}

-----------------------------------------------------------------------------
(* Token-verified variant: verifyToken and the user endpoints *)

\* the credentials of a request: the Authorization header and ?token=
Credentials(hdr, query) == [hdr |-> hdr, query |-> query]

\* req.headers.authorization?.split(' ')[1] || req.query.token
RequestToken(cred) ==
    IF BearerToken(cred.hdr).present THEN BearerToken(cred.hdr) ELSE cred.query

\* (variant: an invalid or expired token is answered 401 as a missing one)
verifyTokenAlways401(cred) ==
    LET t == RequestToken(cred)
        v == jwtVerify(t.token, JWT_SECRET)
    IN  IF ~t.present THEN [pass |-> FALSE, res |-> Fail(401, "No token provided")]
        ELSE IF ~v.ok THEN [pass |-> FALSE, res |-> Fail(401, "Invalid or expired token")]
        ELSE [pass |-> TRUE, res |-> NoResponse, user |-> v.decoded]

\* verifyToken: next() is called exactly when pass, with req.user = decoded
verifyToken(cred) ==
    LET t == RequestToken(cred)
        v == jwtVerify(t.token, JWT_SECRET)
    IN  IF ~t.present THEN [pass |-> FALSE, res |-> Fail(401, "No token provided")]
        ELSE IF ~v.ok THEN [pass |-> FALSE, res |-> Fail(403, "Invalid or expired token")]
        ELSE [pass |-> TRUE, res |-> NoResponse, user |-> v.decoded]

\* req.body.token || req.headers.authorization?.split(' ')[1]: the token of
\* the body is carried in the field query of the credentials
BodyToken(cred) ==
    IF cred.query.present THEN cred.query ELSE BearerToken(cred.hdr)

\* POST /api/earnings/validate-token: the handler verifies the token itself
ValidateTokenOutcome(cred) ==
    LET t == BodyToken(cred)
        v == jwtVerify(t.token, JWT_SECRET)
        userCheck == {u \in Users : v.decoded.userId.t = "number" /\ u = v.decoded.userId.n}
    IN  IF ~t.present THEN Fail(401, "No token provided")
        ELSE IF ~v.ok THEN Fail(403, "Invalid or expired token")
        ELSE IF userCheck = {} THEN Fail(404, "User not found")
        ELSE [NoResponse EXCEPT
                 !.status = 200,
                 !.rows = {[id |-> v.decoded.userId.n, username |-> v.decoded.username]}]

ValidateToken(cred) ==
    Serve([op |-> "validate-token", cred |-> cred], ValidateTokenOutcome(cred))

\* a === b on JavaScript values
StrictEquals(a, b) == a.t = b.t /\ a.t # "NaN" /\ a.n = b.n /\ a.s = b.s

\* (variant: a token without userId passes the owner check)
NotOwnerWhenIdentified(userId, user) ==
    /\ user.userId.t # "undefined"
    /\ ~StrictEquals(parseInt(JsStr(userId)), user.userId)

\* parseInt(userId) !== req.user.userId
NotOwner(userId, user) == ~StrictEquals(parseInt(JsStr(userId)), user.userId)

\* a handler reading the rows of one user in a table after the owner check
OwnedRows(userId, user, table) ==
    LET id == SqlInt(userId)
        rows == {r \in table : r.user_id = id.v}
    IN  IF NotOwner(userId, user) THEN Fail(403, "Unauthorized")
        ELSE IF ~id.ok THEN Fail(500, "invalid input syntax for type integer")
        ELSE [NoResponse EXCEPT !.status = 200, !.rows = rows,
                                !.count = Cardinality(rows)]

EarningsOf(uid) == {r \in earnings : r.user_id = uid}

\* GET /api/earnings/dashboard/:userId
UserDashboardOutcome(userId, user) ==
    LET out == OwnedRows(userId, user, earnings)
    IN  IF out.status # 200 THEN out
        ELSE [out EXCEPT !.count = 0,
                         !.total = SumOver(out.rows, [r \in out.rows |-> r.total_amount])]

UserDashboard(cred, userId) ==
    LET gate == verifyToken(cred)
    IN  Serve([op |-> "user-dashboard", cred |-> cred, userId |-> userId],
              IF gate.pass THEN UserDashboardOutcome(userId, gate.user) ELSE gate.res)

\* GET /api/earnings/history/:userId?operator= ("" when no operator is given)
UserHistoryOutcome(userId, operator, user) ==
    OwnedRows(userId, user,
              {r \in earnings_history : operator # "" => r.operator = operator})

UserHistory(cred, userId, operator) ==
    LET gate == verifyToken(cred)
    IN  Serve([op |-> "user-history", cred |-> cred, userId |-> userId,
               operator |-> operator],
              IF gate.pass THEN UserHistoryOutcome(userId, operator, gate.user) ELSE gate.res)

\* the rows of table withdrawals
AllWithdrawals == {withdrawals[i] : i \in RowIds(withdrawals)}

WithdrawalsOf(uid) == {withdrawals[i] : i \in {j \in RowIds(withdrawals) : withdrawals[j].user_id = uid}}

\* GET /api/earnings/withdrawals/:userId
UserWithdrawalsOutcome(userId, user) == OwnedRows(userId, user, AllWithdrawals)

UserWithdrawals(cred, userId) ==
    LET gate == verifyToken(cred)
    IN  Serve([op |-> "user-withdrawals", cred |-> cred, userId |-> userId],
              IF gate.pass THEN UserWithdrawalsOutcome(userId, gate.user) ELSE gate.res)

LinksOf(uid) == {l \in ReferralLinks : l.user_id = uid}

\* GET /api/earnings/referral-links/:userId
UserReferralLinksOutcome(userId, user) == OwnedRows(userId, user, ReferralLinks)

UserReferralLinks(cred, userId) ==
    LET gate == verifyToken(cred)
    IN  Serve([op |-> "user-referral-links", cred |-> cred, userId |-> userId],
              IF gate.pass THEN UserReferralLinksOutcome(userId, gate.user) ELSE gate.res)

\* wd.user_id !== req.user.userId
NotOwnerOfRow(wd, user) == ~StrictEquals(JsNum(wd.user_id), user.userId)

\* GET /api/earnings/withdrawal-status/:withdrawalId
WithdrawalStatusOutcome(withdrawalId, user) ==
    LET id == SqlInt(withdrawalId)
        found == {i \in RowIds(withdrawals) : withdrawals[i].id = id.v}
        wd == withdrawals[CHOOSE i \in found : TRUE]
    IN  IF ~id.ok THEN Fail(500, "invalid input syntax for type integer")
        ELSE IF found = {} THEN Fail(404, "Withdrawal not found")
        ELSE IF NotOwnerOfRow(wd, user) THEN Fail(403, "Unauthorized")
        ELSE [NoResponse EXCEPT !.status = 200, !.rows = {wd}]

WithdrawalStatus(cred, withdrawalId) ==
    LET gate == verifyToken(cred)
    IN  Serve([op |-> "withdrawal-status", cred |-> cred, withdrawalId |-> withdrawalId],
              IF gate.pass THEN WithdrawalStatusOutcome(withdrawalId, gate.user) ELSE gate.res)

\* !v of a JavaScript value
Falsy(v) ==
    \/ v.t \in {"undefined", "NaN"}
    \/ v.t = "number" /\ v.n = 0
    \/ v.t = "string" /\ v.s = <<>>

\* a body value bound to a numeric column: [ok, v]
SqlNumeric(v) ==
    CASE v.t = "number" -> [ok |-> TRUE, v |-> v.n]
      [] v.t = "string" -> SqlInt(v.s)
      [] OTHER -> [ok |-> FALSE, v |-> 0]

\* the rows of the operator's earnings check
EarningsCheck(userId, operator) ==
    {r \in earnings : userId.t = "number" /\ r.user_id = userId.n /\ r.operator = operator}

\* POST /api/earnings/request-withdrawal (token-verified variant): the
\* response and the table it leaves
UserRequestOutcome(operator, requestedAmount, user, w) ==
    LET check == EarningsCheck(user.userId, operator)
        amount == SqlNumeric(requestedAmount)
        row == NewWithdrawal(Len(w) + 1, user.userId.n, user.username, operator, amount.v)
    IN  IF operator = "" \/ Falsy(requestedAmount)
        THEN [res |-> Fail(400, "Operator and amount required"), w |-> w]
        ELSE IF check = {} \/ \E r \in check : r.total_amount = 0
        THEN [res |-> Fail(400, "No earnings for this operator"), w |-> w]
        ELSE IF ~amount.ok
        THEN [res |-> Fail(500, "invalid input syntax for type numeric"), w |-> w]
        ELSE [res |-> [NoResponse EXCEPT !.status = 200, !.rows = {row}],
              w |-> Append(w, row)]

UserRequestWithdrawal(cred, operator, requestedAmount) ==
    LET gate == verifyToken(cred)
        out == IF gate.pass
               THEN UserRequestOutcome(operator, requestedAmount, gate.user, withdrawals)
               ELSE [res |-> gate.res, w |-> withdrawals]
    IN  /\ Len(out.w) <= MaxTokenRows
        /\ req' = [op |-> "user-request-withdrawal", cred |-> cred, operator |-> operator,
                   requestedAmount |-> requestedAmount]
        /\ res' = out.res
        /\ pre' = Snapshot
        /\ withdrawals' = out.w
        /\ UNCHANGED <<given, admin_adjustments, winners_of_week>>

-----------------------------------------------------------------------------
(* Token-verified variant: the admin endpoints behind verifyAdminToken *)

\* an admin endpoint that writes nothing: response is what its handler sends
AdminRead(request, hdr, response) ==
    LET gate == verifyAdminToken(hdr)
    IN  Serve(request, IF gate.pass THEN response ELSE gate.res)

\* GET /api/admin/earnings/all-users: GROUP BY user_id, username
AllUsersOutcome ==
    LET groups == {[user_id |-> r.user_id, username |-> r.username] : r \in earnings}
        of(g) == {r \in earnings : r.user_id = g.user_id /\ r.username = g.username}
        rows == { [user_id |-> g.user_id, username |-> g.username,
                   total_earnings |-> SumOver(of(g), [r \in earnings |-> r.total_amount]),
                   operators_count |-> Cardinality({r.operator : r \in of(g)})] :
                  g \in groups }
    IN  [NoResponse EXCEPT !.status = 200, !.rows = rows, !.count = Cardinality(rows)]

AdminAllUsers(hdr) == AdminRead([op |-> "admin-all-users", hdr |-> hdr], hdr, AllUsersOutcome)

\* GET /api/admin/earnings/user/:userId: four lists, each row under the
\* name of its list
AdminUserOutcome(userId) ==
    LET id == SqlInt(userId)
        history == {r \in earnings_history : r.user_id = id.v}
    IN  IF ~id.ok THEN Fail(500, "invalid input syntax for type integer")
        ELSE [NoResponse EXCEPT
                !.status = 200,
                !.rows = {[list |-> "earnings", row |-> r] : r \in EarningsOf(id.v)}
                    \cup {[list |-> "earningsHistory", row |-> r] : r \in history}
                    \cup {[list |-> "withdrawals", row |-> r] : r \in WithdrawalsOf(id.v)}
                    \cup {[list |-> "referralLinks", row |-> r] : r \in LinksOf(id.v)}]

AdminUser(hdr, userId) ==
    AdminRead([op |-> "admin-user", hdr |-> hdr, userId |-> userId], hdr,
              AdminUserOutcome(userId))

\* POST /api/admin/earnings/adjust-earnings, behind the gate: the response
\* and the table it leaves.  In the body 0 and "" stand for a missing field
AdjustOutcome(body, admin, a) ==
    LET row == [user_id |-> body.userId, username |-> body.username,
                adjustment_amount |-> body.adjustmentAmount,
                adjustment_type |-> body.adjustmentType, reason |-> body.reason,
                admin_username |-> admin.adminUsername]
    IN  IF body.userId = 0 \/ body.adjustmentAmount = 0 \/ body.adjustmentType = ""
            \/ body.reason = ""
        THEN [res |-> Fail(400, "Missing required fields"), a |-> a]
        ELSE [res |-> [NoResponse EXCEPT !.status = 200], a |-> Append(a, row)]

AdjustEarnings(hdr, body) ==
    LET gate == verifyAdminToken(hdr)
        out == IF gate.pass THEN AdjustOutcome(body, gate.admin, admin_adjustments)
               ELSE [res |-> gate.res, a |-> admin_adjustments]
    IN  /\ Len(out.a) <= MaxAdjustments
        /\ req' = [op |-> "admin-adjust-earnings", hdr |-> hdr, body |-> body]
        /\ res' = out.res
        /\ pre' = Snapshot
        /\ admin_adjustments' = out.a
        /\ UNCHANGED <<given, withdrawals, winners_of_week>>

\* GET /api/admin/earnings/withdrawals (count: pendingCount, total:
\* processedCount)
AdminWithdrawalsOutcome ==
    [NoResponse EXCEPT
        !.status = 200, !.rows = AllWithdrawals,
        !.count = Cardinality({r \in AllWithdrawals : r.status = "pending"}),
        !.total = Cardinality({r \in AllWithdrawals : r.status # "pending"})]

AdminWithdrawals(hdr) ==
    AdminRead([op |-> "admin-withdrawals", hdr |-> hdr], hdr, AdminWithdrawalsOutcome)

\* GET /api/admin/earnings/pending-withdrawals
PendingWithdrawalsOutcome ==
    LET rows == {r \in AllWithdrawals : r.status = "pending"}
    IN  [NoResponse EXCEPT !.status = 200, !.rows = rows, !.count = Cardinality(rows)]

PendingWithdrawals(hdr) ==
    AdminRead([op |-> "admin-pending-withdrawals", hdr |-> hdr], hdr,
              PendingWithdrawalsOutcome)

\* weekStart: today moved back by getDay() days, to the Sunday
WeekStart(day) == day - (day % 7)

\* the row one pass of the insert loop adds (the emoji of the default
\* message is written *)
WinnerRow(winner, position, weekStart, admin) ==
    [user_id |-> winner.user_id, username |-> winner.username, position |-> position,
     total_earnings |-> winner.total_earnings,
     featured_message |->
         IF winner.featured_message # "" THEN winner.featured_message
         ELSE "* Top " \o ToString(position) \o " Earner of the Week!",
     week_start_date |-> weekStart, week_end_date |-> weekStart + 6,
     selected_by_admin |-> admin.adminUsername]

\* (variant: nothing is deleted)
SelectRowsAll(rows, gone) == rows

RECURSIVE SelectRows(_, _)
\* the rows of sequence rows outside the set gone, in their order
SelectRows(rows, gone) ==
    IF rows = <<>> THEN <<>>
    ELSE IF Head(rows) \in gone THEN SelectRows(Tail(rows), gone)
    ELSE <<Head(rows)>> \o SelectRows(Tail(rows), gone)

\* POST /api/admin/earnings/set-winners, behind the gate (a missing winner
\* has present = FALSE; a missing total_earnings is 0, a missing
\* featured_message ""): the response and the table it leaves
SetWinnersOutcome(body, admin, table) ==
    LET weekStart == WeekStart(today)
        gone == {table[i] : i \in {j \in DOMAIN table : table[j].week_start_date = weekStart}}
        kept == SelectRows(table, gone)
    IN  IF ~body.winner1.present \/ ~body.winner2.present
        THEN [res |-> Fail(400, "Two winners required"), table |-> table]
        ELSE [res |-> [NoResponse EXCEPT !.status = 200],
              table |-> kept \o <<WinnerRow(body.winner1, 1, weekStart, admin),
                                  WinnerRow(body.winner2, 2, weekStart, admin)>>]

SetWinners(hdr, body) ==
    LET gate == verifyAdminToken(hdr)
        out == IF gate.pass THEN SetWinnersOutcome(body, gate.admin, winners_of_week)
               ELSE [res |-> gate.res, table |-> winners_of_week]
    IN  /\ req' = [op |-> "admin-set-winners", hdr |-> hdr, body |-> body, day |-> today]
        /\ res' = out.res
        /\ pre' = Snapshot
        /\ winners_of_week' = out.table
        /\ UNCHANGED <<given, withdrawals, admin_adjustments>>

\* GET /api/admin/earnings/current-winners: the query calls CURDATE(), which
\* PostgreSQL does not have, so it throws
CurrentWinnersOutcome == Fail(500, "function curdate() does not exist")

CurrentWinners(hdr) ==
    AdminRead([op |-> "admin-current-winners", hdr |-> hdr], hdr, CurrentWinnersOutcome)

-----------------------------------------------------------------------------
(* Token-verified variant: GET /api/admin/earnings/export *)

\* A text is written as the sequence of its fragments: a fragment is one
\* character, or a word of letters and digits taken whole.

\* a column of a query result: its name and what its values are (kind
\* "number": a number; "word": a string of letters and digits or NULL;
\* "text": a string of any characters, written as its characters)
Column(name, kind) == [name |-> name, kind |-> kind]

\* value.includes(',')
IncludesComma(value) == \E i \in DOMAIN value : value[i] = ","

\* one cell of convertToCSV: '' for null, the value between double quotes
\* when it is a string holding a comma, the value otherwise
CsvValue(row, column) ==
    LET value == row[column.name]
    IN  IF column.kind = "number" THEN <<ToString(value)>>
        ELSE IF column.kind = "word" THEN (IF value = "NULL" THEN <<>> ELSE <<value>>)
        ELSE IF IncludesComma(value) THEN <<"\"">> \o value \o <<"\"">>
        ELSE value

RECURSIVE Join(_, _)
\* parts.join(sep) of texts
Join(parts, sep) ==
    IF parts = <<>> THEN <<>>
    ELSE IF Len(parts) = 1 THEN parts[1]
    ELSE parts[1] \o <<sep>> \o Join(Tail(parts), sep)

\* convertToCSV(data) for rows of the given columns (Object.keys(data[0]))
convertToCSV(data, columns) ==
    IF data = <<>> THEN <<>>
    ELSE LET headers == [i \in DOMAIN columns |-> <<columns[i].name>>]
             line(row) == Join([i \in DOMAIN columns |-> CsvValue(row, columns[i])], ",")
         IN  Join(<<Join(headers, ",")>> \o [i \in DOMAIN data |-> line(data[i])], "\n")

RECURSIVE OrderBy(_, _)
\* the rows of set S in ascending order of key, a function on S
OrderBy(S, key) ==
    IF S = {} THEN <<>>
    ELSE LET first == CHOOSE x \in S : \A y \in S : key[x] <= key[y]
         IN  <<first>> \o OrderBy(S \ {first}, key)

\* the place of an operator in alphabetical order
OperatorRank(operator) ==
    CASE operator = "Airtel" -> 1 [] operator = "Jio" -> 2 [] OTHER -> 3

EarningsColumns ==
    <<Column("user_id", "number"), Column("username", "word"), Column("operator", "word"),
      Column("total_amount", "number"), Column("approved_referrals_count", "number")>>

HistoryColumns ==
    <<Column("id", "number"), Column("user_id", "number"), Column("operator", "word"),
      Column("referral_code", "word"), Column("referred_person_name", "text"),
      Column("amount_earned", "number"), Column("status", "word"),
      Column("created_at", "number"), Column("admin_notes", "word")>>

WithdrawalColumns ==
    <<Column("id", "number"), Column("user_id", "number"), Column("username", "word"),
      Column("operator", "word"), Column("requested_amount", "number"),
      Column("status", "word"), Column("requested_at", "number")>>

\* the rows the export selects and their columns; type and userId are the
\* query's strings (userId: its characters, none when it is missing or empty)
ExportData(type, userId) ==
    LET id == SqlInt(userId)
        history == {r \in earnings_history : r.user_id = id.v}
    IN  IF type = "all-users"
        THEN [ok |-> TRUE, columns |-> EarningsColumns,
              data |-> OrderBy(earnings,
                               [r \in earnings |-> 10 * r.user_id + OperatorRank(r.operator)])]
        ELSE IF type = "user-details" /\ userId # <<>>
        THEN [ok |-> id.ok, columns |-> HistoryColumns,
              data |-> OrderBy(history, [r \in history |-> 0 - r.created_at])]
        ELSE IF type = "withdrawals"
        THEN [ok |-> TRUE, columns |-> WithdrawalColumns,
              data |-> OrderBy(AllWithdrawals, [r \in AllWithdrawals |-> 0 - r.requested_at])]
        ELSE [ok |-> TRUE, columns |-> <<>>, data |-> <<>>]

\* the handler behind the gate; 'No data to export' goes out with status 200
ExportOutcome(type, userId) ==
    LET selected == ExportData(type, userId)
    IN  IF ~selected.ok THEN Fail(500, "invalid input syntax for type integer")
        ELSE IF Len(selected.data) = 0 THEN Fail(200, "No data to export")
        ELSE [NoResponse EXCEPT !.status = 200,
                                !.csv = convertToCSV(selected.data, selected.columns)]

Export(hdr, type, userId) ==
    AdminRead([op |-> "admin-export", hdr |-> hdr, type |-> type, userId |-> userId],
              hdr, ExportOutcome(type, userId))

-----------------------------------------------------------------------------
(* Requests *)

AmountInputs ==
    { JsUndefined, JsNum(0), JsNum(0 - 100), JsNum(100), JsStr(<<"3", "0", "0", "x">>) }

\* the bodies {operator, requestedAmount, uid} sent to request-withdrawal
RequestBodies ==
    [operator : {"Airtel"}, requestedAmount : AmountInputs, uid : {1}]
        \cup [operator : {"Airtel"}, requestedAmount : {JsNum(100), JsNum(300)}, uid : {2}]
        \cup [operator : {""}, requestedAmount : {JsNum(100)}, uid : {1}]
        \cup [operator : {"Airtel"}, requestedAmount : {JsNum(100)}, uid : {0, 3}]

UserIdParams == {<<"1">>, <<"3">>, <<"2", "x">>}

DigitChars == <<"0", "1", "2", "3", "4", "5", "6", "7", "8", "9">>

\* the decimal text of a number below 10, as a URL carries it
IdParam(i) == <<DigitChars[i + 1]>>

\* the bodies {status, adminNotes, rejectionReason} sent to approve-withdrawal
Approved == [status |-> "approved", adminNotes |-> "ok", rejectionReason |-> "NULL"]
Rejected == [status |-> "rejected", adminNotes |-> "NULL", rejectionReason |-> "no"]
BackToPending == [status |-> "pending", adminNotes |-> "NULL", rejectionReason |-> "NULL"]
ToPaid == [status |-> "paid", adminNotes |-> "NULL", rejectionReason |-> "NULL"]

\* the approve-withdrawal requests: every id the table can hold and the one
\* after, resolved either way; a status the endpoint refuses; no id
Resolutions ==
    [withdrawalId : {IdParam(i) : i \in 1..(MaxRows + 1)}, body : {Approved, Rejected}]
        \cup [withdrawalId : {IdParam(1)}, body : {BackToPending, ToPaid}]
        \cup [withdrawalId : {<<"x">>}, body : {Approved}]

\* the token POST /api/admin/earnings/login issues
AdminToken == MakeToken(JWT_SECRET, FALSE, AdminPayload("pratheek"))

AdminHeader == Header(2, AdminToken)

-----------------------------------------------------------------------------
(* The strict variant served one request at a time, with the admin's
   resolutions *)

\* the written tables are empty, no request has been served and none is in
\* flight
Fresh ==
    /\ withdrawals = <<>>
    /\ admin_adjustments = <<>>
    /\ winners_of_week = <<>>
    /\ earnings_adjustments = <<>>
    /\ earnings_admins = NoAdmins
    /\ calls = <<>>
    /\ req = NoRequest
    /\ res = NoResponse
    /\ pre = [withdrawals |-> <<>>, admin_adjustments |-> <<>>, winners_of_week |-> <<>>]

\* the days the clock can show: a Wednesday
Days == {10}

Init ==
    /\ Fresh
    /\ referrals \in InitialReferrals
    /\ earnings = {}
    /\ earnings_history = {}
    /\ today \in Days
    /\ int_underscores \in BOOLEAN

Next ==
    \/ \E b \in RequestBodies : RequestWithdrawal(b.operator, b.requestedAmount, b.uid)
    \/ \E userId \in UserIdParams : GetDashboard(userId)
    \/ \E userId \in UserIdParams : GetHistory(userId)
    \/ \E userId \in UserIdParams : GetWithdrawals(userId)
    \/ \E r \in Resolutions : ApproveWithdrawal(AdminHeader, r.withdrawalId, r.body)

Spec == Init /\ [][Next]_vars

-----------------------------------------------------------------------------
(* Properties of the strict variant *)

\* the user's approved referrals, over all the user's links
ApprovedReferrals(u) ==
    {r \in ReferralIds :
        /\ referrals[r].status = "approved"
        /\ \E l \in ReferralLinks : l.id = referrals[r].referral_link_id /\ l.user_id = u}

\* 100 per approved referral minus the amounts of the user's rows of table w
\* in status pending, approved or paid
StatedBalance(u, w) ==
    100 * Cardinality(ApprovedReferrals(u))
        - SumOver({i \in DOMAIN w :
                      w[i].user_id = u /\ w[i].status \in {"pending", "approved", "paid"}},
                  [i \in DOMAIN w |-> w[i].requested_amount])

\* the rows of user u in table w that are pending
PendingOf(u, w) == {i \in DOMAIN w : w[i].user_id = u /\ w[i].status = "pending"}

IsRequest == req.op = "request-withdrawal"

\* the amount a request-withdrawal asks for, as the handler reads it
AskedAmount == parseFloat(req.requestedAmount)

\* C1: for every user, in every state of the store, the balance the
\* dashboard computes and the balance request-withdrawal computes are equal,
\* and both are 100 x (approved referrals on the user's links) minus the
\* amounts of the user's withdrawals in pending, approved or paid; the
\* balances the two endpoints send are that number.
C1_BalanceConsistent ==
    /\ \A u \in Users :
          /\ DashboardBalance(u, withdrawals) = AvailableBalance(u, withdrawals)
          /\ DashboardBalance(u, withdrawals) = StatedBalance(u, withdrawals)
    /\ (req.op = "dashboard" /\ res.status = 200) =>
          res.currentBalance = toFixed2(StatedBalance(SqlInt(req.userId).v, pre.withdrawals))
    /\ (IsRequest /\ res.error = "Insufficient balance") =>
          res.available = toFixed2(StatedBalance(req.uid, pre.withdrawals))
    /\ (IsRequest /\ res.status = 200) =>
          res.remainingBalance = toFixed2(StatedBalance(req.uid, pre.withdrawals) - AskedAmount.n)

\* C1 witness: the dashboard has reported a balance of 100 to a user who
\* earned 300 and has a rejected row and rows that are deducted
C1_Witness ==
    /\ req.op = "dashboard" /\ res.status = 200
    /\ res.totalEarnings = "300.00" /\ res.currentBalance = "100.00"
    /\ \E i \in DOMAIN withdrawals :
          withdrawals[i].user_id = 1 /\ withdrawals[i].status = "rejected"
    /\ \E i \in DOMAIN withdrawals :
          withdrawals[i].user_id = 1 /\ withdrawals[i].status = "approved"
    /\ PendingOf(1, withdrawals) # {}

\* C2: a request-withdrawal asking for more than the user's available
\* balance is answered 400 and leaves the withdrawals table as it was.
C2_OverBalanceRejected ==
    (IsRequest /\ req.uid # 0 /\ ~isNaN(AskedAmount)
        /\ AskedAmount.n > StatedBalance(req.uid, pre.withdrawals))
    => (res.status = 400 /\ withdrawals = pre.withdrawals)

\* C2 witness: a positive amount above a positive balance, with no pending
\* row in the way, was refused
C2_Witness ==
    /\ IsRequest /\ req.uid = 1 /\ ~isNaN(AskedAmount)
    /\ PendingOf(1, pre.withdrawals) = {}
    /\ StatedBalance(1, pre.withdrawals) = 200
    /\ AskedAmount.n = 300
    /\ res.status = 400 /\ withdrawals = pre.withdrawals

\* C3: a request-withdrawal made while the user has a pending withdrawal is
\* answered 400 and adds no row, whatever the amount and the balance.
C3_PendingRejected ==
    (IsRequest /\ PendingOf(req.uid, pre.withdrawals) # {})
    => (res.status = 400 /\ withdrawals = pre.withdrawals)

\* C3 witness: an amount the balance covers was refused because of a
\* pending row
C3_Witness ==
    /\ IsRequest /\ PendingOf(req.uid, pre.withdrawals) # {}
    /\ ~isNaN(AskedAmount) /\ AskedAmount.n > 0
    /\ AskedAmount.n <= StatedBalance(req.uid, pre.withdrawals)
    /\ res.status = 400 /\ withdrawals = pre.withdrawals

\* C4: with requests handled one at a time and referral statuses fixed, no
\* sequence of request-withdrawal calls and admin resolutions makes a
\* user's available balance negative.
C4_BalanceNeverNegative ==
    \A u \in Users : StatedBalance(u, withdrawals) >= 0

\* C5: with requests handled one at a time, every user has at most one
\* pending withdrawal in every reachable state.
C5_OnePendingPerUser ==
    \A u \in Users : Cardinality(PendingOf(u, withdrawals)) <= 1

\* C5 witness: a user with resolved rows and a pending one, and another
\* user with a pending row at the same time, after a refused request
C5_Witness ==
    /\ PendingOf(1, withdrawals) # {} /\ PendingOf(2, withdrawals) # {}
    /\ \E i \in DOMAIN withdrawals :
          withdrawals[i].user_id = 1 /\ withdrawals[i].status = "rejected"
    /\ IsRequest /\ req.uid = 1 /\ res.status = 400

\* C6: approve-withdrawal never changes the status of a withdrawal that is
\* already approved or rejected.
C6_ResolvedStaysResolved ==
    req.op = "approve-withdrawal" =>
        \A i \in DOMAIN pre.withdrawals :
            pre.withdrawals[i].status \in {"approved", "rejected"} =>
                withdrawals[i].status = pre.withdrawals[i].status

\* C7: approving sets status approved and stamps processed_at and the
\* admin; a status other than approved and rejected is answered 400 and
\* changes no row; a withdrawal that has left pending never returns to it.
C7_ApproveStampsAndNeverBackToPending ==
    /\ (req.op = "approve-withdrawal" /\ res.status = 200 /\ req.body.status = "approved") =>
          \A i \in DOMAIN withdrawals :
              withdrawals[i].id = SqlInt(req.withdrawalId).v =>
                  /\ withdrawals[i].status = "approved"
                  /\ withdrawals[i].processed_at = Now
                  /\ withdrawals[i].processed_by_admin = req.hdr.token.payload.adminUsername
    /\ (req.op = "approve-withdrawal" /\ req.body.status \notin {"approved", "rejected"}) =>
          (res.status = 400 /\ withdrawals = pre.withdrawals)
    /\ \A i \in DOMAIN pre.withdrawals :
          pre.withdrawals[i].status # "pending" => withdrawals[i].status # "pending"

\* C7 witness: a pending withdrawal has just been approved
C7_Witness ==
    /\ req.op = "approve-withdrawal" /\ res.status = 200
    /\ \E i \in DOMAIN pre.withdrawals :
          /\ pre.withdrawals[i].status = "pending" /\ pre.withdrawals[i].processed_at = "NULL"
          /\ withdrawals[i].status = "approved" /\ withdrawals[i].processed_at = Now
          /\ withdrawals[i].processed_by_admin = "pratheek"

\* the scenario's user: three approved referrals, all of them Airtel
ThreeAirtel(u) ==
    /\ Cardinality(ApprovedReferrals(u)) = 3
    /\ \A r \in ApprovedReferrals(u) :
          \E l \in ReferralLinks :
              l.id = referrals[r].referral_link_id /\ l.operator = "Airtel"

RowsOf(u, w) == {i \in DOMAIN w : w[i].user_id = u}

\* the first two steps of the scenario: the dashboard shows 300.00 and a
\* request of 300 succeeds and leaves 0.00
ScenarioStart ==
    /\ (req.op = "dashboard" /\ res.status = 200 /\ ThreeAirtel(SqlInt(req.userId).v)
            /\ RowsOf(SqlInt(req.userId).v, pre.withdrawals) = {})
        => res.totalEarnings = "300.00"
    /\ (IsRequest /\ req.uid # 0 /\ ThreeAirtel(req.uid) /\ RowsOf(req.uid, pre.withdrawals) = {}
            /\ req.operator = "Airtel" /\ ~isNaN(AskedAmount) /\ AskedAmount.n = 300)
        => (res.status = 200 /\ res.remainingBalance = "0.00"
            /\ Len(withdrawals) = Len(pre.withdrawals) + 1)

\* the second request of the scenario: any positive amount, the user's only
\* row being the pending withdrawal of 300 the first request created
SecondRequest ==
    /\ IsRequest /\ req.uid # 0 /\ ThreeAirtel(req.uid)
    /\ ~isNaN(AskedAmount) /\ AskedAmount.n > 0 /\ req.operator # ""
    /\ Cardinality(RowsOf(req.uid, pre.withdrawals)) = 1
    /\ \A i \in RowsOf(req.uid, pre.withdrawals) :
          pre.withdrawals[i].status = "pending" /\ pre.withdrawals[i].requested_amount = 300

\* C8 as stated: the second request fails with the insufficient-balance
\* error and adds no row.
C8_SecondFailsInsufficient ==
    /\ ScenarioStart
    /\ SecondRequest =>
          (res.status = 400 /\ res.error = "Insufficient balance" /\ withdrawals = pre.withdrawals)

\* C8 amended: the dashboard shows 300.00, the request of 300 succeeds with
\* 0.00 remaining, and the second request is refused with a 400 and adds
\* no row; the error is the pending-withdrawal one, the first withdrawal
\* being still pending.
C8_SecondFailsPending ==
    /\ ScenarioStart
    /\ SecondRequest =>
          /\ res.status = 400
          /\ res.error = "You already have a pending withdrawal request"
          /\ withdrawals = pre.withdrawals

\* C8 witness: the second request of the scenario has been refused
C8_Witness ==
    /\ SecondRequest /\ res.status = 400 /\ AskedAmount.n = 100
    /\ pre.withdrawals[1].user_id = req.uid /\ pre.withdrawals[1].status = "pending"

-----------------------------------------------------------------------------
(* The user endpoints of the token-verified variant served one request at a
   time *)

\* the tokens the referral system issues to users 1 and 2
UserToken(uid) ==
    MakeToken(JWT_SECRET, FALSE, UserPayload(uid, IF uid = 1 THEN "u1" ELSE "u2"))

NoHeader == Header(0, Garbage)

NoQueryToken == [present |-> FALSE, token |-> Garbage]

\* the credentials user requests carry: none, a token of user 1 or of user 2
\* in the header, a token of user 1 in the query, an expired token of user 1
UserCredentials ==
    { Credentials(NoHeader, NoQueryToken),
      Credentials(Header(2, UserToken(1)), NoQueryToken),
      Credentials(Header(2, UserToken(2)), NoQueryToken),
      Credentials(NoHeader, [present |-> TRUE, token |-> UserToken(1)]),
      Credentials(Header(2, [UserToken(1) EXCEPT !.expired = TRUE]), NoQueryToken) }

OwnerIdParams == {<<"1">>, <<"2">>, <<"2", "x">>, <<"1", "_", "2">>}

WithdrawalIdParams == {IdParam(i) : i \in 1..(MaxTokenRows + 1)} \cup {<<"x">>}

\* the bodies {operator, requestedAmount} sent to request-withdrawal
UserRequestBodies ==
    [operator : {"Airtel", "Vi"}, requestedAmount : {JsNum(100)}]
        \cup [operator : {"Airtel"},
              requestedAmount : {JsUndefined, JsStr(<<"x">>), JsNum(0), JsNum(0 - 100)}]

InitOwner ==
    /\ Fresh
    /\ referrals = ReferralTable("approved", "rejected", "approved")
    /\ \E l \in Ledgers : earnings = l.earnings /\ earnings_history = l.earnings_history
    /\ today \in Days
    /\ int_underscores \in BOOLEAN

NextOwner ==
    \/ \E c \in UserCredentials, userId \in OwnerIdParams : UserDashboard(c, userId)
    \/ \E c \in UserCredentials, userId \in OwnerIdParams, operator \in {"", "Airtel"} :
          UserHistory(c, userId, operator)
    \/ \E c \in UserCredentials, userId \in OwnerIdParams : UserWithdrawals(c, userId)
    \/ \E c \in UserCredentials, userId \in OwnerIdParams : UserReferralLinks(c, userId)
    \/ \E c \in UserCredentials, id \in WithdrawalIdParams : WithdrawalStatus(c, id)
    \/ \E c \in UserCredentials, b \in UserRequestBodies :
          UserRequestWithdrawal(c, b.operator, b.requestedAmount)
    \/ \E c \in UserCredentials : ValidateToken(c)

SpecOwner == InitOwner /\ [][NextOwner]_vars

\* the requests of the four endpoints that name a user in the URL
NamesUser == req.op \in {"user-dashboard", "user-history", "user-withdrawals",
                         "user-referral-links"}

\* the user the verified token of the last request stands for (0: none)
TokenUser ==
    LET gate == verifyToken(req.cred)
    IN  IF gate.pass /\ gate.user.userId.t = "number" THEN gate.user.userId.n ELSE 0

\* the last request carries a valid token of a user A and names a resource
\* of another user B: the userId of its URL is B's id to the store, or its
\* withdrawalId is the id of a withdrawal of B
CrossUser ==
    /\ req.op \in {"user-dashboard", "user-history", "user-withdrawals",
                   "user-referral-links", "withdrawal-status"}
    /\ TokenUser \in Users
    /\ \E B \in Users \ {TokenUser} :
          \/ NamesUser /\ SqlInt(req.userId) = [ok |-> TRUE, v |-> B]
          \/ /\ req.op = "withdrawal-status"
             /\ \E i \in RowIds(withdrawals) :
                   /\ withdrawals[i].user_id = B
                   /\ SqlInt(req.withdrawalId) = [ok |-> TRUE, v |-> withdrawals[i].id]

\* the response carries nothing read from the tables
NoData ==
    /\ res.rows = {}
    /\ res.csv = <<>>
    /\ res.count = 0
    /\ res.total = 0
    /\ res.totalEarnings = "" /\ res.currentBalance = "" /\ res.totalWithdrawn = ""
    /\ res.remainingBalance = "" /\ res.available = ""

\* C9: in the token-verified variant, a request to dashboard, history,
\* withdrawals, referral-links or withdrawal-status that carries a valid
\* token of user A and names a resource owned by another user B gets the one
\* response 403 Unauthorized, which carries no row and no figure of B and so
\* is the same whatever B's rows are; the store is left as it was.
C9_CrossUserRefused ==
    CrossUser => /\ res = Fail(403, "Unauthorized")
                 /\ NoData
                 /\ Snapshot = pre

-----------------------------------------------------------------------------
(* The admin endpoints of the token-verified variant served one request at
   a time, user 1 requesting withdrawals *)

\* the Authorization headers admin requests carry: none; the scheme without
\* a token; a token that is no JWT; an admin token signed with another key;
\* an expired admin token; a valid user token; a valid admin token
AdminHeaders ==
    { NoHeader,
      Header(1, Garbage),
      Header(2, Garbage),
      Header(2, MakeToken("another key", FALSE, AdminPayload("pratheek"))),
      Header(2, [AdminToken EXCEPT !.expired = TRUE]),
      Header(2, UserToken(1)),
      AdminHeader }

\* the bodies sent to adjust-earnings: complete, and without a reason
AdjustBodies ==
    [userId : {1}, username : {"u1"}, adjustmentAmount : {50}, adjustmentType : {"bonus"},
     reason : {"gift", ""}]

\* the approve-withdrawal requests sent by the admin client
AdminResolutions ==
    [withdrawalId : {IdParam(1)}, body : {Approved, Rejected, BackToPending}]
        \cup [withdrawalId : {<<"x">>}, body : {Approved}]

Winner(uid, name, total, message) ==
    [present |-> TRUE, user_id |-> uid, username |-> name, total_earnings |-> total,
     featured_message |-> message]

NoWinner == [Winner(0, "", 0, "") EXCEPT !.present = FALSE]

\* the bodies {winner1, winner2} sent to set-winners
WinnerBodies ==
    { [winner1 |-> Winner(1, "u1", 300, ""), winner2 |-> Winner(2, "u2", 200, "well done")],
      [winner1 |-> Winner(1, "u1", 300, ""), winner2 |-> NoWinner] }

\* the queries {type, userId} sent to export
ExportQueries ==
    [type : {"all-users", "withdrawals", "user-details", "summary"}, userId : {<<>>}]
        \cup [type : {"user-details"}, userId : {<<"2">>, <<"x">>}]

InitAdmin == InitOwner

NextAdmin ==
    \/ UserRequestWithdrawal(Credentials(Header(2, UserToken(1)), NoQueryToken),
                             "Airtel", JsNum(100))
    \/ \E h \in AdminHeaders : AdminAllUsers(h)
    \/ \E h \in AdminHeaders, userId \in {<<"1">>, <<"x">>} : AdminUser(h, userId)
    \/ \E h \in AdminHeaders, b \in AdjustBodies : AdjustEarnings(h, b)
    \/ \E h \in AdminHeaders : AdminWithdrawals(h)
    \/ \E h \in AdminHeaders, r \in AdminResolutions :
          ApproveWithdrawal(h, r.withdrawalId, r.body)
    \/ \E h \in AdminHeaders : PendingWithdrawals(h)
    \/ \E h \in AdminHeaders, b \in WinnerBodies : SetWinners(h, b)
    \/ \E h \in AdminHeaders : CurrentWinners(h)
    \/ \E h \in AdminHeaders, q \in ExportQueries : Export(h, q.type, q.userId)

SpecAdmin == InitAdmin /\ [][NextAdmin]_vars

\* the admin endpoints other than login
AdminOps ==
    {"admin-all-users", "admin-user", "admin-adjust-earnings", "admin-withdrawals",
     "approve-withdrawal", "admin-pending-withdrawals", "admin-set-winners",
     "admin-current-winners", "admin-export"}

\* the last request carries a token that fails verification or whose
\* payload has no isAdmin
BadAdminToken ==
    LET t == BearerToken(req.hdr)
    IN  /\ t.present
        /\ \/ ~t.token.wellFormed
           \/ t.token.key # JWT_SECRET
           \/ t.token.expired
           \/ ~t.token.payload.isAdmin

\* C10: in the token-verified variant, each of the nine admin endpoints
\* other than login answers 401 to a request without a token and 403 to a
\* request whose token is invalid or lacks isAdmin, and in both cases leaves
\* every table as it was and sends nothing read from the tables.
C10_AdminGateRefuses ==
    req.op \in AdminOps =>
        /\ ~BearerToken(req.hdr).present =>
              res.status = 401 /\ NoData /\ Snapshot = pre
        /\ BadAdminToken =>
              res.status = 403 /\ NoData /\ Snapshot = pre

\* C10 happens: a valid token of user 1, which lacks isAdmin, is sent to
\* approve the pending withdrawal 1 and is refused
C10_Witness ==
    /\ req.op = "approve-withdrawal"
    /\ req.hdr = Header(2, UserToken(1))
    /\ req.withdrawalId = IdParam(1)
    /\ req.body = Approved
    /\ Len(withdrawals) >= 1
    /\ withdrawals[1].status = "pending"
    /\ res.status = 403

-----------------------------------------------------------------------------
(* The withdrawal rules of the README *)

\* the approved referrals on the user's links of one operator
ApprovedForOperator(u, operator) ==
    {r \in ReferralIds :
        /\ referrals[r].status = "approved"
        /\ \E l \in ReferralLinks :
              /\ l.id = referrals[r].referral_link_id
              /\ l.user_id = u
              /\ l.operator = operator}

\* C11: a withdrawal request for an operator is accepted only when the user
\* has at least 3 approved referrals for that operator; with fewer the
\* request is refused and the withdrawals table is left as it was.
C11_ThreeApprovedRequired ==
    IsRequest =>
        IF Cardinality(ApprovedForOperator(req.uid, req.operator)) >= 3
        THEN TRUE
        ELSE res.status # 200 /\ withdrawals = pre.withdrawals

-----------------------------------------------------------------------------
(* set-winners served one call at a time, over two weeks *)

\* midnight: the clock moves to the next day
Tick ==
    /\ today < LastDay
    /\ today' = today + 1
    /\ UNCHANGED <<referrals, earnings, earnings_history, earnings_adjustments,
                     earnings_admins, int_underscores, calls,
                   store, req, res, pre>>

\* the bodies {winner1, winner2} sent over the weeks
WeeklyWinnerBodies ==
    WinnerBodies
        \cup {[winner1 |-> Winner(2, "u2", 200, ""), winner2 |-> Winner(12, "u12", 100, "")]}

InitWinners == InitOwner

NextWinners ==
    \/ Tick
    \/ \E h \in {AdminHeader, NoHeader}, b \in WeeklyWinnerBodies : SetWinners(h, b)

SpecWinners == InitWinners /\ [][NextWinners]_vars

\* the last request was a set-winners call that succeeded, and the clock
\* still shows the day it ran on
SetWinnersDone ==
    /\ req.op = "admin-set-winners"
    /\ res.status = 200
    /\ today = req.day

\* the rows of a winners table whose week starts on weekStart, in their order
WinnersOfWeek(table, weekStart) ==
    SelectSeq(table, LAMBDA row : row.week_start_date = weekStart)

\* the rows of a winners table of the other weeks, in their order
WinnersOfOtherWeeks(table, weekStart) ==
    SelectSeq(table, LAMBDA row : row.week_start_date # weekStart)

\* row holds winner at the given position
HoldsWinner(row, winner, position) ==
    /\ row.position = position
    /\ row.user_id = winner.user_id
    /\ row.username = winner.username

\* C12: after a successful set-winners call that ran alone, the rows of
\* winners_of_week of the current week are exactly two, winner1 at position
\* 1 and winner2 at position 2, whatever the week held before; the rows of
\* the other weeks are as they were; and the same call made again leaves
\* the table as it is.
C12_SetWinnersReplacesWeek ==
    SetWinnersDone =>
        LET weekStart == WeekStart(req.day)
            week == WinnersOfWeek(winners_of_week, weekStart)
            admin == verifyAdminToken(req.hdr).admin
        IN  /\ Len(week) = 2
            /\ HoldsWinner(week[1], req.body.winner1, 1)
            /\ HoldsWinner(week[2], req.body.winner2, 2)
            /\ WinnersOfOtherWeeks(winners_of_week, weekStart)
                  = WinnersOfOtherWeeks(pre.winners_of_week, weekStart)
            /\ SetWinnersOutcome(req.body, admin, winners_of_week).table = winners_of_week

\* C12 happens: winners are set for a week that already held two other
\* winners, while the week before holds its own
C12_Witness ==
    /\ SetWinnersDone
    /\ LET weekStart == WeekStart(req.day)
           before == WinnersOfWeek(pre.winners_of_week, weekStart)
       IN  /\ Len(before) = 2
           /\ before[1].user_id # req.body.winner1.user_id
           /\ WinnersOfOtherWeeks(winners_of_week, weekStart) # <<>>

-----------------------------------------------------------------------------
(* The CSV export *)

\* the number of lines of a text: one more than its line breaks
Lines(text) == 1 + Cardinality({i \in DOMAIN text : text[i] = "\n"})

\* the last request was an export that got through the admin gate
Exported == req.op = "admin-export" /\ verifyAdminToken(req.hdr).pass

\* C13: an export that selects N >= 1 records sends a CSV text of exactly
\* N + 1 lines, whatever the records hold (commas, double quotes, line
\* breaks); an export that selects none (an unknown type, user-details
\* without userId) sends the failure 'No data to export' and no CSV text.
C13_CsvHasOneLinePerRecord ==
    Exported =>
        LET selected == ExportData(req.type, req.userId)
        IN  selected.ok =>
                IF Len(selected.data) >= 1
                THEN res.status = 200 /\ Lines(res.csv) = Len(selected.data) + 1
                ELSE res = Fail(200, "No data to export")

-----------------------------------------------------------------------------
(* The reads of the strict variant *)

StrictReads == {"dashboard", "history", "withdrawals"}

\* C14: GET dashboard, GET history and GET withdrawals change nothing in
\* the store, and a read that follows the same read for the same user with
\* nothing in between gets the same response.
C14_ReadsChangeNothing ==
    [][ req'.op \in StrictReads =>
            /\ UNCHANGED <<store, given>>
            /\ req' = req => res' = res ]_vars

\* C14 happens: the withdrawals of a user who has some have been read
C14_Witness ==
    /\ req.op = "withdrawals"
    /\ res.status = 200
    /\ res.rows # {}
    /\ Snapshot = pre

-----------------------------------------------------------------------------
(* What a successful request-withdrawal of the strict variant leaves *)

\* C15: in the strict variant a successful request-withdrawal adds exactly
\* one row to the withdrawals table, for the given user and operator, with
\* the requested amount and status pending, and leaves the other rows as
\* they were; the remainingBalance it returns is the available balance
\* before the request minus the requested amount, and it is the
\* currentBalance a dashboard read returns right after.
C15_RequestAddsOnePendingRow ==
    (IsRequest /\ res.status = 200) =>
        LET before == pre.withdrawals
            row == withdrawals[Len(withdrawals)]
        IN  /\ Len(withdrawals) = Len(before) + 1
            /\ SubSeq(withdrawals, 1, Len(before)) = before
            /\ row.user_id = req.uid
            /\ row.operator = req.operator
            /\ row.requested_amount = AskedAmount.n
            /\ row.status = "pending"
            /\ res.remainingBalance
                  = toFixed2(AvailableBalance(req.uid, before) - AskedAmount.n)
            /\ res.remainingBalance = DashboardResponse(IdParam(req.uid)).currentBalance

\* C15 happens: with 300 earned and 100 already approved, a request for 100
\* succeeds and leaves 100
C15_Witness ==
    /\ IsRequest /\ res.status = 200
    /\ Len(withdrawals) = 2
    /\ withdrawals[1].status = "approved"
    /\ AskedAmount.n = 100
    /\ res.remainingBalance = "100.00"

-----------------------------------------------------------------------------
(* The statuses the endpoints produce *)

\* C16: no endpoint produces the status paid: starting from a store without
\* paid rows, after any sequence of request-withdrawal and
\* approve-withdrawal calls every withdrawal is pending, approved or
\* rejected.
C16_NeverPaid ==
    \A i \in RowIds(withdrawals) :
        withdrawals[i].status \in {"pending", "approved", "rejected"}

\* C16 happens: the admin asked for status paid on the pending withdrawal 1
\* and was refused
C16_Witness ==
    /\ req.op = "approve-withdrawal"
    /\ req.withdrawalId = IdParam(1)
    /\ req.body.status = "paid"
    /\ Len(pre.withdrawals) >= 1
    /\ pre.withdrawals[1].status = "pending"
    /\ res.status = 400
    /\ withdrawals[1].status = "pending"

-----------------------------------------------------------------------------
(* Strict variant: request-withdrawal calls that overlap.  Each await of the
   handler is a step of its own; between two steps of a call the steps of
   the other calls can run. *)

\* the calls that can be in flight together
CallIds == {1, 2}

\* a call that has not arrived yet
IdleCall ==
    [pc |-> "idle", operator |-> "", uid |-> 0, amount |-> 0, totalEarned |-> 0,
     availableBalance |-> 0, res |-> NoResponse]

\* the call answers and ends
Respond(c, response) == calls' = [calls EXCEPT ![c].pc = "done", ![c].res = response]

\* the request arrives: the fields and the amount are validated and the
\* pending check is sent
Arrive(c, operator, requestedAmount, uid) ==
    LET amount == parseFloat(requestedAmount)
    IN  /\ calls[c].pc = "idle"
        /\ IF operator = "" \/ uid = 0
           THEN Respond(c, Fail(400, "Missing required fields"))
           ELSE IF isNaN(amount) \/ amount.n <= 0
           THEN Respond(c, Fail(400, "Invalid withdrawal amount"))
           ELSE calls' = [calls EXCEPT ![c].pc = "pendingCheck", ![c].operator = operator,
                                       ![c].uid = uid, ![c].amount = amount.n]
        /\ UNCHANGED <<referrals, earnings, earnings_history, earnings_adjustments,
                     earnings_admins, today, int_underscores,
                       store, req, res, pre>>

\* Check 1 runs on the table as it is now
RunPendingCheck(c) ==
    /\ calls[c].pc = "pendingCheck"
    /\ IF PendingCheck(calls[c].uid, withdrawals) # {}
       THEN Respond(c, Fail(400, "You already have a pending withdrawal request"))
       ELSE calls' = [calls EXCEPT ![c].pc = "earningsRes"]
    /\ UNCHANGED <<referrals, earnings, earnings_history, earnings_adjustments,
                     earnings_admins, today, int_underscores,
                   store, req, res, pre>>

\* Check 2, first query
RunEarningsRes(c) ==
    /\ calls[c].pc = "earningsRes"
    /\ calls' = [calls EXCEPT ![c].pc = "withdrawalsRes",
                              ![c].totalEarned = TotalEarned(calls[c].uid)]
    /\ UNCHANGED <<referrals, earnings, earnings_history, earnings_adjustments,
                     earnings_admins, today, int_underscores,
                   store, req, res, pre>>

\* Check 2, second query, on the table as it is now, and the comparison
RunWithdrawalsRes(c) ==
    LET availableBalance ==
            calls[c].totalEarned - RequestTotalWithdrawn(calls[c].uid, withdrawals)
    IN  /\ calls[c].pc = "withdrawalsRes"
        /\ IF calls[c].amount > availableBalance
           THEN Respond(c, [Fail(400, "Insufficient balance") EXCEPT
                               !.available = toFixed2(availableBalance)])
           ELSE calls' = [calls EXCEPT ![c].pc = "insert",
                                       ![c].availableBalance = availableBalance]
        /\ UNCHANGED <<referrals, earnings, earnings_history, earnings_adjustments,
                     earnings_admins, today, int_underscores,
                       store, req, res, pre>>

\* (variant: the insert is refused when the user has a pending row by then)
RunInsertIfNonePending(c) ==
    LET row == NewWithdrawal(Len(withdrawals) + 1, calls[c].uid, "NULL",
                             calls[c].operator, calls[c].amount)
    IN  /\ calls[c].pc = "insert"
        /\ IF PendingCheck(calls[c].uid, withdrawals) # {}
           THEN /\ Respond(c, Fail(500, "duplicate pending withdrawal"))
                /\ UNCHANGED withdrawals
           ELSE /\ withdrawals' = Append(withdrawals, row)
                /\ Respond(c, [NoResponse EXCEPT !.status = 200, !.rows = {row}])
        /\ UNCHANGED <<referrals, earnings, earnings_history, earnings_adjustments,
                     earnings_admins, today, int_underscores,
                       admin_adjustments, winners_of_week, req, res, pre>>

\* the INSERT and the answer
RunInsert(c) ==
    LET row == NewWithdrawal(Len(withdrawals) + 1, calls[c].uid, "NULL",
                             calls[c].operator, calls[c].amount)
    IN  /\ calls[c].pc = "insert"
        /\ withdrawals' = Append(withdrawals, row)
        /\ Respond(c, [NoResponse EXCEPT
                          !.status = 200,
                          !.rows = {row},
                          !.remainingBalance =
                              toFixed2(calls[c].availableBalance - calls[c].amount)])
        /\ UNCHANGED <<referrals, earnings, earnings_history, earnings_adjustments,
                     earnings_admins, today, int_underscores,
                       admin_adjustments, winners_of_week, req, res, pre>>

\* the bodies {operator, requestedAmount, uid} of the overlapping calls
RaceBodies ==
    [operator : {"Airtel"}, requestedAmount : {JsNum(100), JsNum(300)}, uid : {1}]
        \cup [operator : {"Airtel"}, requestedAmount : {JsNum(100)}, uid : {2}]
        \cup [operator : {"Airtel"}, requestedAmount : {JsNum(0)}, uid : {1}]

InitRace ==
    /\ withdrawals = <<>>
    /\ admin_adjustments = <<>>
    /\ winners_of_week = <<>>
    /\ earnings_adjustments = <<>>
    /\ earnings_admins = NoAdmins
    /\ calls = [c \in CallIds |-> IdleCall]
    /\ req = NoRequest
    /\ res = NoResponse
    /\ pre = [withdrawals |-> <<>>, admin_adjustments |-> <<>>, winners_of_week |-> <<>>]
    /\ referrals \in InitialReferrals
    /\ earnings = {}
    /\ earnings_history = {}
    /\ today \in Days
    /\ int_underscores = FALSE

NextRace ==
    \E c \in CallIds :
        \/ \E b \in RaceBodies : Arrive(c, b.operator, b.requestedAmount, b.uid)
        \/ RunPendingCheck(c)
        \/ RunEarningsRes(c)
        \/ RunWithdrawalsRes(c)
        \/ RunInsert(c)

SpecRace == InitRace /\ [][NextRace]_vars

\* C17: the pending check is all that stands between two calls of one user:
\* a call that passed it inserts its row when its turn comes, whether or
\* not the user has got a pending row since, so two calls that both run the
\* check before either inserts both insert and leave the user with two
\* pending withdrawals.
C17_InsertIgnoresLaterPending ==
    [][ \A c \in CallIds :
            (calls[c].pc = "insert" /\ calls'[c].pc = "done") =>
                /\ calls'[c].res.status = 200
                /\ withdrawals' = Append(withdrawals, withdrawals'[Len(withdrawals')])
                /\ withdrawals'[Len(withdrawals')].user_id = calls[c].uid
                /\ withdrawals'[Len(withdrawals')].status = "pending" ]_vars

\* C17 happens: both calls of user 1 have answered 200 and user 1 has two
\* pending withdrawals
C17_Witness ==
    /\ \A c \in CallIds :
          calls[c].pc = "done" /\ calls[c].uid = 1 /\ calls[c].res.status = 200
    /\ Cardinality(PendingOf(1, withdrawals)) = 2

-----------------------------------------------------------------------------
(* What a rejection leaves *)

\* the last request was a rejection that found its withdrawal
Rejection ==
    /\ req.op = "approve-withdrawal"
    /\ req.body.status = "rejected"
    /\ res.status = 200
    /\ SqlInt(req.withdrawalId).v \in RowIds(pre.withdrawals)

\* C18: rejecting a withdrawal updates that withdrawal in place: no row is
\* added to any table, no other withdrawal changes, the withdrawal keeps
\* its user, operator and amount, and when it was pending or approved the
\* balance the next read computes is higher than before by exactly its
\* requested amount.
C18_RejectionRestoresBalance ==
    Rejection =>
        LET k == SqlInt(req.withdrawalId).v
            before == pre.withdrawals[k]
            after == withdrawals[k]
        IN  /\ Len(withdrawals) = Len(pre.withdrawals)
            /\ admin_adjustments = pre.admin_adjustments
            /\ winners_of_week = pre.winners_of_week
            /\ \A j \in RowIds(withdrawals) : j # k => withdrawals[j] = pre.withdrawals[j]
            /\ after = [before EXCEPT !.status = "rejected",
                                      !.admin_notes = req.body.adminNotes,
                                      !.rejection_reason = req.body.rejectionReason,
                                      !.processed_at = Now,
                                      !.processed_by_admin = after.processed_by_admin]
            /\ before.status \in {"pending", "approved"} =>
                  /\ DashboardBalance(before.user_id, withdrawals)
                        = DashboardBalance(before.user_id, pre.withdrawals)
                              + before.requested_amount
                  /\ AvailableBalance(before.user_id, withdrawals)
                        = AvailableBalance(before.user_id, pre.withdrawals)
                              + before.requested_amount

\* C18 happens: the pending withdrawal of 100 of user 1, who had 200 left,
\* is rejected and 300 are available again
C18_Witness ==
    /\ Rejection
    /\ pre.withdrawals[SqlInt(req.withdrawalId).v].status = "pending"
    /\ pre.withdrawals[SqlInt(req.withdrawalId).v].user_id = 1
    /\ DashboardBalance(1, pre.withdrawals) = 200
    /\ DashboardBalance(1, withdrawals) = 300

-----------------------------------------------------------------------------
(* The life of a withdrawal row *)

\* row after is row before with at most the fields of a resolution changed
OnlyResolved(before, after) ==
    after = [before EXCEPT !.status = after.status,
                           !.admin_notes = after.admin_notes,
                           !.rejection_reason = after.rejection_reason,
                           !.processed_at = after.processed_at,
                           !.processed_by_admin = after.processed_by_admin]

\* C19: a withdrawal row, once created, is never deleted and keeps its
\* user, operator and requested amount; the only request that changes an
\* existing row is approve-withdrawal, which changes only status, admin
\* notes, rejection reason, processed_at and processed_by_admin, and only
\* of the row with the id it names.
C19_RowsOnlyResolved ==
    /\ Len(withdrawals) >= Len(pre.withdrawals)
    /\ \A i \in RowIds(pre.withdrawals) :
          /\ OnlyResolved(pre.withdrawals[i], withdrawals[i])
          /\ withdrawals[i] # pre.withdrawals[i] =>
                /\ req.op = "approve-withdrawal"
                /\ SqlInt(req.withdrawalId) = [ok |-> TRUE, v |-> pre.withdrawals[i].id]

\* C19 happens: of two withdrawals the first has just been resolved and the
\* second is as it was
C19_Witness ==
    /\ req.op = "approve-withdrawal"
    /\ Len(pre.withdrawals) = 2
    /\ withdrawals[1] # pre.withdrawals[1]
    /\ withdrawals[2] = pre.withdrawals[2]

-----------------------------------------------------------------------------
(* The requested amount of a withdrawal *)

\* the last request is a request-withdrawal of a verified user whose
\* requestedAmount is missing, non-numeric, zero or negative
AmountNotPositive ==
    /\ req.op = "user-request-withdrawal"
    /\ verifyToken(req.cred).pass
    /\ \/ req.requestedAmount.t # "number"
       \/ req.requestedAmount.n <= 0

\* C20: request-withdrawal never persists a withdrawal whose requested amount
\* is not a positive number: a missing, non-numeric, zero or negative
\* requestedAmount is answered 400 and creates no row, so every row of
\* withdrawals has requested_amount > 0
C20_OnlyPositiveAmounts ==
    /\ AmountNotPositive => res.status = 400 /\ withdrawals = pre.withdrawals
    /\ \A i \in RowIds(withdrawals) : withdrawals[i].requested_amount > 0

-----------------------------------------------------------------------------
(* The operator of a withdrawal *)

\* the bodies {operator, requestedAmount, uid} sent to request-withdrawal
\* with and without an operator of the referral system
OperatorBodies ==
    [operator : {"Airtel", "BSNL", ""}, requestedAmount : {JsNum(100)}, uid : {1}]

\* the admin resolves the first withdrawal, either way
OperatorResolutions == [withdrawalId : {IdParam(1)}, body : {Approved, Rejected}]

NextOperators ==
    \/ \E b \in OperatorBodies : RequestWithdrawal(b.operator, b.requestedAmount, b.uid)
    \/ \E r \in OperatorResolutions :
          ApproveWithdrawal(AdminHeader, r.withdrawalId, r.body)

SpecOperators == Init /\ [][NextOperators]_vars

\* the last request is a request-withdrawal that names an operator other
\* than Airtel, Vi and Jio
OperatorNotKnown ==
    /\ req.op \in {"request-withdrawal", "user-request-withdrawal"}
    /\ req.op = "user-request-withdrawal" => verifyToken(req.cred).pass
    /\ req.operator \notin Operators

\* C21: request-withdrawal answers 400 and creates no row for every request
\* whose operator is not one of Airtel, Vi and Jio, so the operator of every
\* row of withdrawals is one of the three
C21_OnlyKnownOperators ==
    /\ OperatorNotKnown => res.status = 400 /\ withdrawals = pre.withdrawals
    /\ \A i \in RowIds(withdrawals) : withdrawals[i].operator \in Operators

-----------------------------------------------------------------------------
(* The answers of the token gate *)

\* the endpoints behind verifyToken, and validate-token
TokenOps ==
    {"user-dashboard", "user-history", "user-withdrawals", "user-referral-links",
     "withdrawal-status", "user-request-withdrawal", "validate-token"}

\* the token the last request is judged by
GateToken ==
    IF req.op = "validate-token" THEN BodyToken(req.cred) ELSE RequestToken(req.cred)

\* the last request carries no credential
MissingCredential == req.op \in TokenOps /\ ~GateToken.present

\* the last request carries a credential that jwt.verify refuses
InvalidCredential ==
    /\ req.op \in TokenOps
    /\ GateToken.present
    /\ ~jwtVerify(GateToken.token, JWT_SECRET).ok

\* C22 as stated: a request with a missing credential and a request with an
\* invalid or expired credential are both answered 401, and the handler
\* behind the gate is not run
C22_BothAnswered401 ==
    MissingCredential \/ InvalidCredential =>
        res.status = 401 /\ NoData /\ Snapshot = pre

\* C22, amended: a request with a missing credential is answered 401 and a
\* request with an invalid or expired credential is answered 403; in both
\* cases the handler behind the gate is not run: nothing read from the
\* tables is sent and no table changes
C22_Missing401Invalid403 ==
    /\ MissingCredential => res.status = 401 /\ NoData /\ Snapshot = pre
    /\ InvalidCredential => res.status = 403 /\ NoData /\ Snapshot = pre

\* C22 happens: user 1, who has earnings for Airtel, requests a withdrawal
\* with an expired token and is refused
C22_Witness ==
    /\ req.op = "user-request-withdrawal"
    /\ InvalidCredential
    /\ req.operator = "Airtel"
    /\ req.requestedAmount = JsNum(100)
    /\ EarningsCheck(JsNum(1), "Airtel") # {}
    /\ res.status = 403
    /\ withdrawals = pre.withdrawals

-----------------------------------------------------------------------------
(* Adjustments variant: POST /api/admin/approve-referral/:id, served
   together with the resolutions of withdrawals *)

\* the rows UPDATE referrals ... WHERE id = $2 matches
ReferralsToUpdate(id) == {r \in ReferralIds : r = id}

\* the handler on the table referrals: the response and the table it leaves
ApproveReferralOutcome(referralId, status) ==
    LET id == SqlInt(referralId)
        updated == [r \in ReferralIds |->
                       IF r \in ReferralsToUpdate(id.v)
                       THEN [referrals[r] EXCEPT !.status = status]
                       ELSE referrals[r]]
    IN  IF status \notin {"approved", "rejected"}
        THEN [res |-> Fail(400, "Invalid status"), referrals |-> referrals]
        ELSE IF ~id.ok
        THEN [res |-> Fail(500, "invalid input syntax for type integer"),
              referrals |-> referrals]
        ELSE [res |-> [NoResponse EXCEPT
                          !.status = 200,
                          !.rows = {updated[r] : r \in ReferralsToUpdate(id.v)}],
              referrals |-> updated]

ApproveReferral(referralId, status) ==
    LET out == ApproveReferralOutcome(referralId, status)
    IN  /\ req' = [op |-> "approve-referral", referralId |-> referralId, status |-> status]
        /\ res' = out.res
        /\ pre' = Snapshot
        /\ referrals' = out.referrals
        /\ UNCHANGED <<earnings, earnings_history, earnings_adjustments,
                     earnings_admins, today, int_underscores, calls, store>>

\* the ids sent to approve-referral: a referral of user 1, one of user 2, an
\* id no referral has, and a text that is no number
ReferralIdParams == {IdParam(3), IdParam(5), IdParam(9), <<"x">>}

\* the approve-withdrawal requests of the admin: the first withdrawal, and
\* an id no withdrawal has
ResolveRequests ==
    [withdrawalId : {IdParam(1), IdParam(9)}, body : {Approved, Rejected}]

NextResolve ==
    \/ \E uid \in {1, 2} : RequestWithdrawal("Airtel", JsNum(100), uid)
    \/ \E r \in ResolveRequests : ApproveWithdrawal(AdminHeader, r.withdrawalId, r.body)
    \/ \E id \in ReferralIdParams, status \in {"approved", "rejected", "pending"} :
          ApproveReferral(id, status)

SpecResolve == Init /\ [][NextResolve]_vars

\* the last request is a resolution the gate and the validation let through
\* that names an id no row of its table has
NamesNoRow ==
    \/ /\ req.op = "approve-withdrawal"
       /\ verifyAdminToken(req.hdr).pass
       /\ req.body.status \in ResolutionStatuses
       /\ SqlInt(req.withdrawalId).ok
       /\ RowsToUpdate(SqlInt(req.withdrawalId).v, pre.withdrawals) = {}
    \/ /\ req.op = "approve-referral"
       /\ req.status \in {"approved", "rejected"}
       /\ SqlInt(req.referralId).ok
       /\ ReferralsToUpdate(SqlInt(req.referralId).v) = {}

\* C23: an approve-withdrawal or an approve-referral that names an id with
\* no matching row is answered 404, never with success, and changes no row
C23_NoRowIsNotFound ==
    NamesNoRow => res.status = 404 /\ withdrawals = pre.withdrawals

-----------------------------------------------------------------------------
(* Adjustments variant: GET /api/earnings/dashboard/:userId with manual
   adjustments *)

\* the table earnings_adjustments holds at most this many rows
MaxEarningsAdjustments == 2

\* the name the dashboard's WHERE clause gives the operator of a row it
\* labels 'Airtel', 'Vi' or 'Jio'
StoredOperator(label) ==
    CASE label = "Airtel" -> "airtel" [] label = "Vi" -> "vi" [] label = "Jio" -> "jio"
      [] OTHER -> label

\* table referral_links as this variant's store holds it
StoredLinks == {[l EXCEPT !.operator = StoredOperator(l.operator)] : l \in ReferralLinks}

\* (SELECT SUM(amount) FROM earnings_adjustments WHERE user_id = $1), with
\* COALESCE(..., 0)
AdjustmentsSum(uid) ==
    LET of == {i \in RowIds(earnings_adjustments) : earnings_adjustments[i].user_id = uid}
    IN  SumOver(of, [i \in of |-> earnings_adjustments[i].amount])

\* one SELECT of the UNION ALL: the row labelled with the operator
OperatorRow(uid, label) ==
    LET links == {l \in StoredLinks : l.user_id = uid /\ l.operator = StoredOperator(label)}
        approved == {r \in ReferralIds :
                        /\ referrals[r].status = "approved"
                        /\ \E l \in links : l.id = referrals[r].referral_link_id}
    IN  [operator |-> label,
         total_amount |-> 100 * Cardinality(approved) + AdjustmentsSum(uid),
         approved_referrals_count |-> Cardinality(approved)]

\* the handler: userEarnings is the three rows of the UNION ALL
AdjustmentsDashboardResponse(userId) ==
    LET id == SqlInt(userId)
    IN  IF ~id.ok THEN Fail(500, "invalid input syntax for type integer")
        ELSE [NoResponse EXCEPT
                 !.status = 200,
                 !.rows = {OperatorRow(id.v, label) : label \in Operators}]

AdjustmentsDashboard(userId) ==
    Serve([op |-> "adjustments-dashboard", userId |-> userId],
          AdjustmentsDashboardResponse(userId))

\* an adjust operation: a signed amount recorded for a user, append-only
RecordAdjustment(uid, amount) ==
    /\ Len(earnings_adjustments) < MaxEarningsAdjustments
    /\ req' = [op |-> "record-adjustment", uid |-> uid, amount |-> amount]
    /\ res' = [NoResponse EXCEPT !.status = 200]
    /\ pre' = Snapshot
    /\ earnings_adjustments' = Append(earnings_adjustments, [user_id |-> uid, amount |-> amount])
    /\ UNCHANGED <<referrals, earnings, earnings_history, earnings_admins, today,
                   int_underscores, calls, store>>

\* the amounts the admin records: a bonus and a penalty
AdjustmentAmounts == {50, 0 - 500}

NextAdjustments ==
    \/ \E userId \in UserIdParams : AdjustmentsDashboard(userId)
    \/ \E uid \in {1, 2}, amount \in AdjustmentAmounts : RecordAdjustment(uid, amount)
    \/ \E id \in ReferralIdParams, status \in {"approved", "rejected", "pending"} :
          ApproveReferral(id, status)

SpecAdjustments == Init /\ [][NextAdjustments]_vars

\* the sum of the adjustments recorded for the user
AdjustmentsOf(u) ==
    SumOver({i \in DOMAIN earnings_adjustments : earnings_adjustments[i].user_id = u},
            [i \in DOMAIN earnings_adjustments |-> earnings_adjustments[i].amount])

\* the last request is a dashboard of this variant answered with rows
AdjustmentsDashboardServed == req.op = "adjustments-dashboard" /\ res.status = 200

\* C24: for every user and operator the dashboard's total_amount equals
\* 100 x (approved referrals of that user for that operator) plus the sum of
\* the user's adjustments, and it is never negative
C24_OperatorTotalNonNegative ==
    AdjustmentsDashboardServed =>
        \A row \in res.rows :
            /\ row.total_amount =
                   100 * Cardinality(ApprovedForOperator(SqlInt(req.userId).v, row.operator))
                       + AdjustmentsOf(SqlInt(req.userId).v)
            /\ row.total_amount >= 0

\* C25: the sum of total_amount over the operator rows the dashboard returns
\* equals 100 x (all approved referrals of the user) plus the sum of the
\* user's adjustments counted once
C25_LifetimeCountsAdjustmentsOnce ==
    AdjustmentsDashboardServed =>
        SumOver(res.rows, [row \in res.rows |-> row.total_amount])
            = 100 * Cardinality(ApprovedReferrals(SqlInt(req.userId).v))
                  + AdjustmentsOf(SqlInt(req.userId).v)

-----------------------------------------------------------------------------
(* Overlapping requests and the balance *)

\* the sum of requested_amount over the user's withdrawals in pending,
\* approved or paid
Reserved(u) ==
    SumOver({i \in DOMAIN withdrawals :
                withdrawals[i].user_id = u
                    /\ withdrawals[i].status \in {"pending", "approved", "paid"}},
            [i \in DOMAIN withdrawals |-> withdrawals[i].requested_amount])

\* C26: under any interleaving of the queries of two or more
\* request-withdrawal calls of the same user, the sum of requested_amount
\* over that user's withdrawals in pending, approved or paid never exceeds
\* the user's lifetime earnings
C26_NoOverdraftByOverlap ==
    \A u \in Users : Reserved(u) <= 100 * Cardinality(ApprovedReferrals(u))

-----------------------------------------------------------------------------
(* set-winners: the DELETE and the two INSERTs of calls in flight *)

\* a winner of a request body, its user_id any JSON value
WinnerSent(uid, name) == Winner(uid, name, 300, "")

\* a winner missing from the body
NoWinnerSent == [WinnerSent(JsUndefined, "") EXCEPT !.present = FALSE]

\* a set-winners call that has not arrived yet
IdleWinnersCall ==
    [pc |-> "idle", body |-> [winner1 |-> NoWinnerSent, winner2 |-> NoWinnerSent],
     weekStart |-> 0, position |-> 0, before |-> <<>>, res |-> NoResponse]

\* the bodies {winner1, winner2} of the calls: users 1 and 2, users 2 and 1,
\* a second winner whose user_id is no number, no second winner
WinnersRaceBodies ==
    { [winner1 |-> WinnerSent(JsNum(1), "u1"), winner2 |-> WinnerSent(JsNum(2), "u2")],
      [winner1 |-> WinnerSent(JsNum(2), "u2"), winner2 |-> WinnerSent(JsNum(1), "u1")],
      [winner1 |-> WinnerSent(JsNum(1), "u1"), winner2 |-> WinnerSent(JsStr(<<"x">>), "u2")],
      [winner1 |-> WinnerSent(JsNum(1), "u1"), winner2 |-> NoWinnerSent] }

\* the row an INSERT of the loop stores for a winner of a request body
WinnerRowStored(winner, position, weekStart) ==
    [WinnerRow(winner, position, weekStart, AdminToken.payload) EXCEPT
        !.user_id = SqlNumeric(winner.user_id).v]

\* the call arrives with a valid admin token: the body is checked and
\* weekStart computed
WinnersArrive(c, body) ==
    /\ calls[c].pc = "idle"
    /\ IF ~body.winner1.present \/ ~body.winner2.present
       THEN calls' = [calls EXCEPT ![c].pc = "done", ![c].body = body,
                                   ![c].before = winners_of_week,
                                   ![c].weekStart = WeekStart(today),
                                   ![c].res = Fail(400, "Two winners required")]
       ELSE calls' = [calls EXCEPT ![c].pc = "delete", ![c].body = body,
                                   ![c].before = winners_of_week,
                                   ![c].weekStart = WeekStart(today)]
    /\ UNCHANGED <<referrals, earnings, earnings_history, earnings_adjustments,
                   earnings_admins, today, int_underscores, store, req, res, pre>>

\* await DELETE FROM winners_of_week WHERE week_start_date = $1::DATE
RunDeleteWinners(c) ==
    LET gone == {winners_of_week[i] :
                    i \in {j \in DOMAIN winners_of_week :
                              winners_of_week[j].week_start_date = calls[c].weekStart}}
    IN  /\ calls[c].pc = "delete"
        /\ winners_of_week' = SelectRows(winners_of_week, gone)
        /\ calls' = [calls EXCEPT ![c].pc = "insert", ![c].position = 1]
        /\ UNCHANGED <<referrals, earnings, earnings_history, earnings_adjustments,
                       earnings_admins, today, int_underscores, withdrawals,
                       admin_adjustments, req, res, pre>>

\* one pass of the loop: await INSERT INTO winners_of_week; a user_id that
\* is no number makes the store refuse the row and the catch answers 500
RunInsertWinner(c) ==
    LET winner == IF calls[c].position = 1 THEN calls[c].body.winner1
                  ELSE calls[c].body.winner2
        row == WinnerRowStored(winner, calls[c].position, calls[c].weekStart)
    IN  /\ calls[c].pc = "insert"
        /\ IF ~SqlNumeric(winner.user_id).ok
           THEN /\ UNCHANGED winners_of_week
                /\ calls' = [calls EXCEPT
                                ![c].pc = "done",
                                ![c].res = Fail(500, "invalid input syntax for type integer")]
           ELSE /\ winners_of_week' = Append(winners_of_week, row)
                /\ calls' = IF calls[c].position = 1
                            THEN [calls EXCEPT ![c].position = 2]
                            ELSE [calls EXCEPT ![c].pc = "done",
                                               ![c].res = [NoResponse EXCEPT !.status = 200]]
        /\ UNCHANGED <<referrals, earnings, earnings_history, earnings_adjustments,
                       earnings_admins, today, int_underscores, withdrawals,
                       admin_adjustments, req, res, pre>>

\* the winners an earlier set-winners call left for a week
WinnersLeft(weekStart) ==
    <<WinnerRowStored(WinnerSent(JsNum(2), "u2"), 1, weekStart),
      WinnerRowStored(WinnerSent(JsNum(12), "u12"), 2, weekStart)>>

\* the table holds no row, or the winners of this week, or those of the
\* week before
InitWinnersRace ==
    /\ withdrawals = <<>>
    /\ admin_adjustments = <<>>
    /\ earnings_adjustments = <<>>
    /\ earnings_admins = NoAdmins
    /\ today \in Days
    /\ winners_of_week \in {<<>>, WinnersLeft(WeekStart(today)), WinnersLeft(WeekStart(today) - 7)}
    /\ calls = [c \in CallIds |-> IdleWinnersCall]
    /\ req = NoRequest
    /\ res = NoResponse
    /\ pre = [withdrawals |-> <<>>, admin_adjustments |-> <<>>, winners_of_week |-> <<>>]
    /\ referrals \in InitialReferrals
    /\ earnings = {}
    /\ earnings_history = {}
    /\ int_underscores = FALSE

NextWinnersRace ==
    \E c \in CallIds :
        \/ \E b \in WinnersRaceBodies : WinnersArrive(c, b)
        \/ RunDeleteWinners(c)
        \/ RunInsertWinner(c)

SpecWinnersRace == InitWinnersRace /\ [][NextWinnersRace]_vars

\* both calls have finished with success
BothWinnersCallsDone ==
    \A c \in CallIds : calls[c].pc = "done" /\ calls[c].res.status = 200

\* C27: once two concurrent set-winners calls have both finished, the
\* current week holds exactly two winner rows, position 1 and position 2,
\* both from the same call
C27_TwoRowsOfOneCall ==
    BothWinnersCallsDone =>
        \E c \in CallIds :
            WinnersOfWeek(winners_of_week, WeekStart(today))
                = <<WinnerRowStored(calls[c].body.winner1, 1, WeekStart(today)),
                    WinnerRowStored(calls[c].body.winner2, 2, WeekStart(today))>>

\* a call has ended with an error response while no other call was in
\* flight
FailedAlone(c) ==
    /\ calls[c].pc = "done"
    /\ calls[c].res.status \in {400, 500}
    /\ \A d \in CallIds \ {c} : calls[d].pc = "idle"

\* C28: a set-winners call that ends with an error response (400 or 500)
\* leaves the current week's winner rows exactly as they were before the
\* call: no week is left with the old winners deleted and fewer than two new
\* winners stored
C28_FailedCallLeavesWeek ==
    \A c \in CallIds :
        FailedAlone(c) =>
            WinnersOfWeek(winners_of_week, calls[c].weekStart)
                = WinnersOfWeek(calls[c].before, calls[c].weekStart)

-----------------------------------------------------------------------------
(* POST /api/admin/earnings/login: the SELECT and the INSERT of logins in
   flight *)

LoginCallIds == {1, 2, 3}

\* a login that has not arrived yet
IdleLogin == [pc |-> "idle", username |-> "", password |-> "", res |-> NoResponse]

\* the answer of a successful login: adminToken is carried in rows
LoginSuccess(username) ==
    [NoResponse EXCEPT !.status = 200,
                       !.rows = {MakeToken(JWT_SECRET, FALSE, AdminPayload(username))}]

\* the rows of earnings_admins with the username
AdminCheck(username) ==
    {i \in DOMAIN earnings_admins.rows : earnings_admins.rows[i].username = username}

\* the request arrives: the pair is compared with the hardcoded one
LoginArrive(c, username, password) ==
    /\ calls[c].pc = "idle"
    /\ IF username # "pratheek" \/ password # "adminpratheek"
       THEN calls' = [calls EXCEPT ![c].pc = "done", ![c].username = username,
                                   ![c].password = password,
                                   ![c].res = Fail(401, "Invalid admin credentials")]
       ELSE calls' = [calls EXCEPT ![c].pc = "adminCheck", ![c].username = username,
                                   ![c].password = password]
    /\ UNCHANGED <<referrals, earnings, earnings_history, earnings_adjustments,
                   earnings_admins, today, int_underscores, store, req, res, pre>>

\* await SELECT id FROM earnings_admins WHERE username = $1: with a row the
\* token is signed and sent, without one the INSERT is next
RunAdminCheck(c) ==
    /\ calls[c].pc = "adminCheck"
    /\ IF AdminCheck(calls[c].username) # {}
       THEN calls' = [calls EXCEPT ![c].pc = "done",
                                   ![c].res = LoginSuccess(calls[c].username)]
       ELSE calls' = [calls EXCEPT ![c].pc = "insert"]
    /\ UNCHANGED <<referrals, earnings, earnings_history, earnings_adjustments,
                   earnings_admins, today, int_underscores, store, req, res, pre>>

\* await INSERT INTO earnings_admins (username, password_hash), then the
\* token is signed and sent; a UNIQUE username makes the store refuse a
\* second row and the catch answers 500
RunAdminInsert(c) ==
    /\ calls[c].pc = "insert"
    /\ IF earnings_admins.unique /\ AdminCheck(calls[c].username) # {}
       THEN /\ UNCHANGED earnings_admins
            /\ calls' = [calls EXCEPT
                            ![c].pc = "done",
                            ![c].res = Fail(500, "duplicate key value violates unique constraint")]
       ELSE /\ earnings_admins' =
                   [earnings_admins EXCEPT
                       !.rows = Append(@, [username |-> calls[c].username,
                                           password_hash |-> "hash"])]
            /\ calls' = [calls EXCEPT ![c].pc = "done",
                                      ![c].res = LoginSuccess(calls[c].username)]
    /\ UNCHANGED <<referrals, earnings, earnings_history, earnings_adjustments,
                   today, int_underscores, store, req, res, pre>>

\* the pairs {username, password} sent to login
LoginBodies ==
    [username : {"pratheek"}, password : {"adminpratheek", "pratheek"}]
        \cup [username : {"admin"}, password : {"adminpratheek"}]

InitLogin ==
    /\ withdrawals = <<>>
    /\ admin_adjustments = <<>>
    /\ winners_of_week = <<>>
    /\ earnings_adjustments = <<>>
    /\ earnings_admins \in {[NoAdmins EXCEPT !.unique = u] : u \in BOOLEAN}
    /\ calls = [c \in LoginCallIds |-> IdleLogin]
    /\ req = NoRequest
    /\ res = NoResponse
    /\ pre = [withdrawals |-> <<>>, admin_adjustments |-> <<>>, winners_of_week |-> <<>>]
    /\ referrals \in InitialReferrals
    /\ earnings = {}
    /\ earnings_history = {}
    /\ today \in Days
    /\ int_underscores = FALSE

NextLogin ==
    \E c \in LoginCallIds :
        \/ \E b \in LoginBodies : LoginArrive(c, b.username, b.password)
        \/ RunAdminCheck(c)
        \/ RunAdminInsert(c)

SpecLogin == InitLogin /\ [][NextLogin]_vars

\* the call sent the hardcoded pair
HardcodedPair(c) ==
    calls[c].username = "pratheek" /\ calls[c].password = "adminpratheek"

\* the call has been answered with an admin token
TokenIssued(c) == calls[c].pc = "done" /\ calls[c].res.status = 200

\* C29: login issues an admin token only for the hardcoded pair, and the
\* admin account is created at most once: after any number of successful
\* logins, sequential or concurrent, earnings_admins holds exactly one row
\* for that username, and a failed login creates no row
C29_OneAdminRow ==
    /\ \A c \in LoginCallIds : TokenIssued(c) => HardcodedPair(c)
    /\ (\E c \in LoginCallIds : TokenIssued(c)) => Cardinality(AdminCheck("pratheek")) = 1
    /\ (\A c \in LoginCallIds : ~HardcodedPair(c)) => earnings_admins.rows = <<>>

-----------------------------------------------------------------------------
(* User tokens at the admin endpoints, admin tokens at the user endpoints *)

\* the credentials user requests carry: a token of user 1, and the admin
\* token in the header or in the query
SwappedCredentials ==
    { Credentials(Header(2, UserToken(1)), NoQueryToken),
      Credentials(AdminHeader, NoQueryToken),
      Credentials(NoHeader, [present |-> TRUE, token |-> AdminToken]) }

\* the Authorization headers admin requests carry: the admin token and a
\* token of user 1
SwappedHeaders == {AdminHeader, Header(2, UserToken(1))}

NextTokens ==
    \/ \E c \in SwappedCredentials, userId \in {<<"1">>, <<"2">>} : UserDashboard(c, userId)
    \/ \E c \in SwappedCredentials, userId \in {<<"1">>, <<"2">>} : UserHistory(c, userId, "")
    \/ \E c \in SwappedCredentials, userId \in {<<"1">>, <<"2">>} : UserWithdrawals(c, userId)
    \/ \E c \in SwappedCredentials, userId \in {<<"1">>, <<"2">>} :
          UserReferralLinks(c, userId)
    \/ \E c \in SwappedCredentials, id \in {IdParam(1), IdParam(9)} : WithdrawalStatus(c, id)
    \/ \E c \in SwappedCredentials : UserRequestWithdrawal(c, "Airtel", JsNum(100))
    \/ \E c \in SwappedCredentials : ValidateToken(c)
    \/ \E h \in SwappedHeaders : AdminAllUsers(h)
    \/ \E h \in SwappedHeaders : AdminUser(h, <<"1">>)
    \/ \E h \in SwappedHeaders, b \in AdjustBodies : AdjustEarnings(h, b)
    \/ \E h \in SwappedHeaders : AdminWithdrawals(h)
    \/ \E h \in SwappedHeaders, body \in {Approved, Rejected} :
          ApproveWithdrawal(h, IdParam(1), body)
    \/ \E h \in SwappedHeaders : PendingWithdrawals(h)
    \/ \E h \in SwappedHeaders, b \in WinnerBodies : SetWinners(h, b)
    \/ \E h \in SwappedHeaders : CurrentWinners(h)
    \/ \E h \in SwappedHeaders, q \in ExportQueries : Export(h, q.type, q.userId)

SpecTokens == InitOwner /\ [][NextTokens]_vars

\* the last request is to an admin endpoint and carries a valid user token
UserTokenAtAdmin ==
    /\ req.op \in AdminOps
    /\ BearerToken(req.hdr).present
    /\ jwtVerify(req.hdr.token, JWT_SECRET).ok
    /\ ~req.hdr.token.payload.isAdmin

\* the last request is to a user endpoint and carries a valid admin token
AdminTokenAtUser ==
    /\ req.op \in TokenOps
    /\ GateToken.present
    /\ jwtVerify(GateToken.token, JWT_SECRET).ok
    /\ GateToken.token.payload.isAdmin
    /\ GateToken.token.payload.userId = JsUndefined

\* C30: a valid user token is refused by every admin endpoint, and a valid
\* admin token presented to the user endpoints never returns any user's
\* earnings, history, withdrawals or referral links and never creates a
\* withdrawal row
C30_TokensNotInterchangeable ==
    /\ UserTokenAtAdmin => res.status = 403 /\ NoData /\ Snapshot = pre
    /\ AdminTokenAtUser => res.status \in {400, 403, 404} /\ NoData /\ Snapshot = pre

\* C30 happens: the admin token is sent to the dashboard of user 1, who has
\* earnings, and is refused
C30_Witness ==
    /\ req.op = "user-dashboard"
    /\ AdminTokenAtUser
    /\ req.userId = <<"1">>
    /\ EarningsOf(1) # {}
    /\ res.status = 403

=============================================================================
